---- MODULE Spec2Model ----
(***************************************************************************)
(* gi-docgen: the GIR dependency loader (gidocgen/gir/parser.py) and the   *)
(* cross-reference resolver passes (gidocgen/gir/ast.py).                  *)
(*                                                                         *)
(* Two specifications share the variables:                                 *)
(*   SpecLoader    GirParser.parse up to the point where the primary       *)
(*                 document and its includes are parsed                    *)
(*   SpecResolver  the resolver pass sequence GirParser.parse runs on the  *)
(*                 parsed repository                                       *)
(***************************************************************************)
EXTENDS Integers, Sequences, FiniteSets, TLC

VARIABLES
    \* GirParser
    girIncludes,    \* the <include> list of every GIR document, by name
    onPath,         \* the documents some search path holds
    errorFlag,      \* GirParser._error
    callStack,      \* the active _parse_tree calls, innermost last
    nsStack,        \* GirParser._current_namespace
    dependencies,   \* GirParser._dependencies = Repository.includes (keys)
    parsed,         \* how often each dependency document was parsed
    requests,       \* how often _parse_dependency was called for each include
    \* Repository
    namespaces,     \* the Namespace of the primary and of every dependency
    types,          \* Repository.types: name -> ctype of the Type node
    symbols,        \* Namespace._symbols of the primary namespace
    \* GirParser.parse
    pc,             \* the next step of parse()
    result,         \* "" while nothing went wrong, else how parse() ended
    round,          \* 1 in the pass sequence parse() runs, 2 in a re-run
    firstRun,       \* the resolved graph as the first run left it
    ast0,           \* the graph as the builder left it
    \* the commands and the file system
    command,        \* the command that runs, and its --add-include-path options
    searchPaths,    \* GirParser._search_paths
    dirFiles,       \* the GIR documents each directory holds
    loadedFrom,     \* Repository.girfile of the dependency: its directory
    error,          \* the exception that left parse(), with its arguments
    \* one element
    node,           \* the XML element a _parse_* method is given
    element,        \* the object the method built
    namespace,      \* the Namespace _parse_tree fills
    comparison,     \* the operands of Type.__eq__ and what it returned
    link,           \* a LinkGenerator
    checker,        \* check(): the symbols, the section reached, the results
    \* the generators
    language,       \* process_language: its argument and what it returned
    reference,      \* gen_reference: the section tasks and the aggregate
    memo,           \* GirParser._types, the memo of _lookup_type
    parsers,        \* GirParser instances and the lists given to them
    index,          \* gen_indices: the symbols and the terms
    passLog         \* the resolver passes parse() has run, in order

vars == <<girIncludes, onPath, errorFlag, callStack, nsStack, dependencies,
          parsed, requests, namespaces, types, symbols, pc, result, round,
          firstRun, ast0, command, searchPaths, dirFiles, loadedFrom, error,
          node, element, namespace, comparison, link, checker,
          language, reference, memo, parsers, index, passLog>>

loaderVars == <<girIncludes, onPath, errorFlag, callStack, nsStack, parsed, requests>>

searchVars == <<command, searchPaths, dirFiles, loadedFrom>>

toolVars == <<node, element, namespace, comparison, link, checker>>

genVars == <<language, reference, memo, parsers, index, passLog>>

(***************************************************************************)
(* Values                                                                  *)
(***************************************************************************)
\* The primary namespace and the one dependency namespace of the resolver
\* worlds.  "G" is also a local name: the resolver compares a namespace name
\* with a local name (ast.py:815, ast.py:840).
Primary == "P"
DepNs == "G"
NsNames == {Primary, DepNs}
LocalNames == {"A", "G"}
ClassOrder == <<"A", "G">>

\* A Type's fully qualified name "ns.name"; ns = "" is a name without a dot.
TypeRef(ns, name) == [ns |-> ns, name |-> name]
\* None, where a Type or an element is expected
NoType == TypeRef("", "")
AllTypeRefs == {TypeRef(n, l) : n \in NsNames, l \in LocalNames}

\* A C type string is a tuple of its parts; None is the empty tuple.
Null == <<>>

\* An attribute or a text that may be missing: None is Null, the string s
\* is <<s>>.
Some(s) == <<s>>

CType(ns, kind, name) == <<ns, kind, name>>

\* None, where find_real_type finds nothing
NoElement == [kind |-> "", name |-> "", ctype |-> Null]

EmptyNamespace ==
    [aliases |-> <<>>, bitfields |-> <<>>, enumerations |-> <<>>,
     error_domains |-> <<>>, classes |-> <<>>, interfaces |-> <<>>,
     records |-> <<>>, unions |-> <<>>, functions |-> <<>>]

Class(ns, name, parent, implements, methods) ==
    [name |-> name, ctype |-> CType(ns, "class", name), parent |-> parent,
     ancestors |-> <<>>, descendants |-> <<>>, implements |-> implements,
     methods |-> methods]

Interface(ns, name, methods) ==
    [name |-> name, ctype |-> CType(ns, "interface", name),
     implementations |-> <<>>, methods |-> methods]

\* Record, Union
Compound(ns, kind, name, methods) ==
    [name |-> name, ctype |-> CType(ns, kind, name), methods |-> methods]

Alias(ns, name) == [name |-> name, ctype |-> CType(ns, "alias", name)]

Function(name) == [name |-> name, identifier |-> <<"function", name, 0>>]

\* The C identifiers of the methods of one type: unique in the namespace.
MethodIds(kind, name, n) == [k \in 1..n |-> <<kind, name, k>>]

Range(s) == {s[i] : i \in DOMAIN s}

(***************************************************************************)
(* Namespace: the per-kind collections are dicts in insertion order        *)
(***************************************************************************)
Keys(d) == {d[i].name : i \in DOMAIN d}

Get(d, name) == d[CHOOSE i \in DOMAIN d : d[i].name = name]

\* The lookups, each in the dict of the other kind
find_interface_in_classes(ns, name) ==
    IF name \in Keys(namespaces[ns].classes) THEN TypeRef(ns, name) ELSE NoType

find_class_in_interfaces(ns, name) ==
    IF name \in Keys(namespaces[ns].interfaces) THEN TypeRef(ns, name) ELSE NoType

\* Namespace.find_class: the class as its reference, or None
find_class(ns, name) ==
    IF name \in Keys(namespaces[ns].classes) THEN TypeRef(ns, name) ELSE NoType

\* Namespace.find_interface
find_interface(ns, name) ==
    IF name \in Keys(namespaces[ns].interfaces) THEN TypeRef(ns, name) ELSE NoType

ClassAt(ref) == Get(namespaces[ref.ns].classes, ref.name)

Element(kind, e) == [kind |-> kind, name |-> e.name, ctype |-> e.ctype]

\* Namespace.find_real_type
find_real_type(ns, name) ==
    LET n == namespaces[ns] IN
    IF name \in Keys(n.aliases) THEN Element("alias", Get(n.aliases, name))
    ELSE IF name \in Keys(n.bitfields) THEN Element("bitfield", Get(n.bitfields, name))
    ELSE IF name \in Keys(n.enumerations) THEN Element("enumeration", Get(n.enumerations, name))
    ELSE IF name \in Keys(n.error_domains) THEN Element("error_domain", Get(n.error_domains, name))
    ELSE IF name \in Keys(n.classes) THEN Element("class", Get(n.classes, name))
    ELSE IF name \in Keys(n.interfaces) THEN Element("interface", Get(n.interfaces, name))
    ELSE IF name \in Keys(n.records) THEN Element("record", Get(n.records, name))
    ELSE IF name \in Keys(n.unions) THEN Element("union", Get(n.unions, name))
    ELSE NoElement

(***************************************************************************)
(* Repository.resolve_empty_ctypes                                         *)
(***************************************************************************)
\* The nested find_real_type: it skips every included repository whose
\* namespace name differs from the local type name.
find_real_type_in_includes(ns, name) ==
    LET hits == {r \in dependencies :
                    r = name /\ find_real_type(r, name) # NoElement}
    IN IF hits = {} THEN NoElement
       ELSE find_real_type(CHOOSE r \in hits : TRUE, name)

\* The element the pass takes the ctype of a Type named t from
real_type_of(t) ==
    IF t.ns # ""
    THEN IF t.ns = Primary
         THEN find_real_type(Primary, t.name)
         ELSE find_real_type_in_includes(t.ns, t.name)
    ELSE NoElement

resolved_ctype(t, ctype) ==
    IF ctype # Null THEN ctype
    ELSE IF real_type_of(t) # NoElement THEN real_type_of(t).ctype
    ELSE ctype

ResolveEmptyCtypes ==
    /\ pc = "resolve_empty_ctypes"
    /\ types' = [t \in DOMAIN types |-> resolved_ctype(t, types[t])]
    /\ pc' = "resolve_class_ancestors"
    /\ UNCHANGED <<loaderVars, dependencies, namespaces, symbols, result,
                   round, firstRun, ast0, searchVars, error, toolVars, genVars>>

(***************************************************************************)
(* Repository.resolve_class_ancestors                                      *)
(***************************************************************************)
\* The nested find_parent_class: the same comparison of the namespace name
\* with the local class name.
find_parent_class(ns, name) ==
    LET hits == {r \in dependencies : r = name /\ find_class(r, name) # NoType}
    IN IF hits = {} THEN NoType
       ELSE find_class(CHOOSE r \in hits : TRUE, name)

\* The class the walk looks up for the Type it has just appended
lookup_parent(t) ==
    IF t.ns # ""
    THEN IF t.ns = Primary
         THEN find_class(Primary, t.name)
         ELSE find_parent_class(t.ns, t.name)
    ELSE find_class(Primary, t.name)

\* One turn of the while loop: the next value of `parent`
next_parent(t) ==
    LET c == lookup_parent(t)
    IN IF c = NoType THEN NoType ELSE ClassAt(c).parent

\* The while loop, cut after `fuel` entries
RECURSIVE walk(_, _)
walk(parent, fuel) ==
    IF parent = NoType \/ fuel = 0 THEN <<>>
    ELSE <<parent>> \o walk(next_parent(parent), fuel - 1)

\* `parent` is a function of the previous `parent` alone, and there are
\* Cardinality(AllTypeRefs) Types: a walk that appends more entries than
\* that has repeated one and never leaves the loop.
ChainLimit == Cardinality(AllTypeRefs) + 1

walk_diverges(parent) == Len(walk(parent, ChainLimit)) = ChainLimit

class_ancestors(cls) == walk(cls.parent, ChainLimit)

\* A class whose parent is not found is passed over.
resolve_ancestors_skip_unresolved(cls) ==
    IF cls.parent = NoType \/ lookup_parent(cls.parent) = NoType THEN cls
    ELSE LET ancestors == class_ancestors(cls)
         IN [cls EXCEPT !.ancestors = ancestors, !.parent = ancestors[1]]

\* The chain is added to the list the class has.
resolve_ancestors_extend(cls) ==
    IF cls.parent = NoType THEN cls
    ELSE LET ancestors == cls.ancestors \o class_ancestors(cls)
         IN [cls EXCEPT !.ancestors = ancestors, !.parent = ancestors[1]]

\* The body of the for loop for one class
resolve_ancestors_of(cls) ==
    IF cls.parent = NoType THEN cls
    ELSE LET ancestors == class_ancestors(cls)
         IN [cls EXCEPT !.ancestors = ancestors, !.parent = ancestors[1]]

ResolveClassAncestors ==
    /\ pc = "resolve_class_ancestors"
    /\ LET classes == namespaces[Primary].classes IN
       IF \E i \in DOMAIN classes :
             classes[i].parent # NoType /\ walk_diverges(classes[i].parent)
       THEN /\ result' = "hang"
            /\ pc' = "hang"
            /\ UNCHANGED namespaces
       ELSE /\ namespaces' = [namespaces EXCEPT ![Primary].classes =
                    [i \in DOMAIN classes |-> resolve_ancestors_of(classes[i])]]
            /\ pc' = "resolve_class_descendants"
            /\ UNCHANGED result
    /\ UNCHANGED <<loaderVars, dependencies, types, symbols, round, firstRun, ast0, searchVars, error, toolVars, genVars>>

(***************************************************************************)
(* Repository.resolve_class_descendants and                                *)
(* Repository.resolve_interface_implementations                            *)
(***************************************************************************)
\* The classes of one namespace, in get_classes() order
ClassRefs(ns) ==
    [i \in DOMAIN namespaces[ns].classes |-> TypeRef(ns, namespaces[ns].classes[i].name)]

\* The classes of the whole graph: the primary namespace, then the included one
GraphClassRefs ==
    ClassRefs(Primary) \o (IF DepNs \in dependencies THEN ClassRefs(DepNs) ELSE <<>>)

\* The class a Type names: the local namespace first, then the included one
\* of that name
resolve_class_ref(t) ==
    IF t.ns = Primary THEN find_class(Primary, t.name)
    ELSE IF t.ns \in dependencies THEN find_class(t.ns, t.name)
    ELSE NoType

resolve_interface_ref(t) ==
    IF t.ns = Primary THEN find_interface(Primary, t.name)
    ELSE IF t.ns \in dependencies THEN find_interface(t.ns, t.name)
    ELSE NoType

\* The descendants of class a after the pass: every class with an ancestor
\* entry that resolves to a is pushed, unless it is there already.
descendants_of(a, old) ==
    old \o SelectSeq(GraphClassRefs,
             LAMBDA d : /\ d \notin Range(old)
                        /\ \E k \in DOMAIN ClassAt(d).ancestors :
                              resolve_class_ref(ClassAt(d).ancestors[k]) = a)

\* The implementations of interface i after the pass
implementations_of(i, old) ==
    old \o SelectSeq(GraphClassRefs,
             LAMBDA c : /\ c \notin Range(old)
                        /\ \E k \in DOMAIN ClassAt(c).implements :
                              resolve_interface_ref(ClassAt(c).implements[k]) = i)

ResolveClassDescendants ==
    /\ pc = "resolve_class_descendants"
    /\ namespaces' = [n \in DOMAIN namespaces |->
          LET classes == namespaces[n].classes IN
          [namespaces[n] EXCEPT !.classes =
              [i \in DOMAIN classes |->
                  [classes[i] EXCEPT !.descendants =
                      descendants_of(TypeRef(n, classes[i].name),
                                     classes[i].descendants)]]]]
    /\ pc' = "resolve_interface_implementations"
    /\ UNCHANGED <<loaderVars, dependencies, types, symbols, result, round,
                   firstRun, ast0, searchVars, error, toolVars, genVars>>

ResolveInterfaceImplementations ==
    /\ pc = "resolve_interface_implementations"
    /\ namespaces' = [n \in DOMAIN namespaces |->
          LET ifaces == namespaces[n].interfaces IN
          [namespaces[n] EXCEPT !.interfaces =
              [i \in DOMAIN ifaces |->
                  [ifaces[i] EXCEPT !.implementations =
                      implementations_of(TypeRef(n, ifaces[i].name),
                                         ifaces[i].implementations)]]]]
    /\ pc' = "resolve_symbols"
    /\ UNCHANGED <<loaderVars, dependencies, types, symbols, result, round,
                   firstRun, ast0, searchVars, error, toolVars, genVars>>

(***************************************************************************)
(* Repository.resolve_symbols                                              *)
(***************************************************************************)
Owner(kind, name) == [kind |-> kind, name |-> name]

\* symbols[func.identifier] = func, in get_functions() order
function_writes(fs) ==
    [i \in DOMAIN fs |-> [id |-> fs[i].identifier,
                          owner |-> Owner("function", fs[i].name)]]

\* symbols[m.identifier] = <the loop variable>, from the i-th type on
RECURSIVE method_writes(_, _, _)
method_writes(d, kind, i) ==
    IF i > Len(d) THEN <<>>
    ELSE [k \in DOMAIN d[i].methods |->
             [id |-> d[i].methods[k], owner |-> Owner(kind, d[i].name)]]
         \o method_writes(d, kind, i + 1)

\* The union loop stores `record`, the variable the record loop left behind.
RECURSIVE union_writes(_, _, _)
union_writes(d, record, i) ==
    IF i > Len(d) THEN <<>>
    ELSE [k \in DOMAIN d[i].methods |-> [id |-> d[i].methods[k], owner |-> record]]
         \o union_writes(d, record, i + 1)

\* dict stores in order: a later store of the same key wins
RECURSIVE store_all(_, _)
store_all(map, ws) ==
    IF ws = <<>> THEN map
    ELSE store_all((ws[1].id :> ws[1].owner) @@ map, Tail(ws))

\* `record` is unbound when the namespace has no record and a union method
\* is reached.
symbols_raises(ns) ==
    /\ ns.records = <<>>
    /\ \E i \in DOMAIN ns.unions : ns.unions[i].methods # <<>>

symbol_table(ns) ==
    LET record == IF ns.records = <<>> THEN Owner("", "")
                  ELSE Owner("record", ns.records[Len(ns.records)].name)
    IN store_all(<<>>,
           function_writes(ns.functions)
           \o method_writes(ns.classes, "class", 1)
           \o method_writes(ns.interfaces, "interface", 1)
           \o method_writes(ns.records, "record", 1)
           \o union_writes(ns.unions, record, 1))

\* Namespace.find_symbol: dict.get
find_symbol(name) ==
    IF name \in DOMAIN symbols THEN symbols[name] ELSE Owner("", "")

ResolveSymbols ==
    /\ pc = "resolve_symbols"
    /\ IF symbols_raises(namespaces[Primary])
       THEN /\ result' = "UnboundLocalError"
            /\ pc' = "raised"
            /\ UNCHANGED symbols
       ELSE /\ symbols' = symbol_table(namespaces[Primary])
            /\ pc' = "done"
            /\ UNCHANGED result
    /\ UNCHANGED <<loaderVars, dependencies, namespaces, types, round, firstRun, ast0, searchVars, error, toolVars, genVars>>

\* The pass sequence of GirParser.parse, run once more on the same repository
RunPassesAgain ==
    /\ pc = "done"
    /\ round = 1
    /\ round' = 2
    /\ firstRun' = [namespaces |-> namespaces, types |-> types, symbols |-> symbols]
    /\ pc' = "resolve_empty_ctypes"
    /\ UNCHANGED <<loaderVars, dependencies, namespaces, types, symbols, result, ast0, searchVars, error, toolVars, genVars>>

(***************************************************************************)
(* The repositories the resolver runs on                                   *)
(***************************************************************************)
MaxImplements == 2
MaxMethods == 1

ParentChoices == {NoType} \cup AllTypeRefs

\* The sequences of at most n different elements of S
DistinctSeqs(S, n) ==
    {s \in UNION {[1..k -> S] : k \in 0..n} :
        \A i, j \in DOMAIN s : s[i] = s[j] => i = j}

\* A dict in document order: the sub-sequences of ClassOrder, an element each
ElementSeqs(Make, Options) ==
    {<<>>}
    \cup {<<Make[l, o]>> : l \in LocalNames, o \in Options}
    \cup {<<Make[ClassOrder[1], o1], Make[ClassOrder[2], o2]>> :
            o1 \in Options, o2 \in Options}

\* The same in either document order
OrderedElementSeqs(Make, Options) ==
    ElementSeqs(Make, Options)
    \cup {<<Make[ClassOrder[2], o2], Make[ClassOrder[1], o1]>> :
            o1 \in Options, o2 \in Options}

World(deps, p, g, ts) ==
    [dependencies |-> deps, namespaces |-> (Primary :> p) @@ (DepNs :> g), types |-> ts]

\* The namespaces a dependency that was loaded, or was not, may hold
Loaded(S) == {<<{DepNs}, g>> : g \in S} \cup {<<{}, EmptyNamespace>>}

\* Class graphs: every class has any parent reference, or none.
AncestorWorlds ==
    LET PClasses == ElementSeqs(
            [l \in LocalNames, o \in ParentChoices |-> Class(Primary, l, o, <<>>, <<>>)], ParentChoices)
        GClasses == ElementSeqs(
            [l \in LocalNames, o \in ParentChoices |-> Class(DepNs, l, o, <<>>, <<>>)], ParentChoices)
    IN {World(dg[1], [EmptyNamespace EXCEPT !.classes = pcs], dg[2], <<>>) :
          pcs \in PClasses,
          dg \in Loaded({[EmptyNamespace EXCEPT !.classes = gcs] : gcs \in GClasses})}

\* Classes that implement interfaces of both namespaces
ImplementsWorlds ==
    LET Classes(ns) == {<<>>} \cup
            {<<Class(ns, "A", NoType, is, <<>>)>> :
                is \in DistinctSeqs(AllTypeRefs, MaxImplements)}
        PIfaces == ElementSeqs(
            [l \in LocalNames, o \in {0} |-> Interface(Primary, l, <<>>)], {0})
        GIfaces == ElementSeqs(
            [l \in LocalNames, o \in {0} |-> Interface(DepNs, l, <<>>)], {0})
    IN {World(dg[1], [EmptyNamespace EXCEPT !.classes = pcs, !.interfaces = pis], dg[2], <<>>) :
          pcs \in Classes(Primary), pis \in PIfaces,
          dg \in Loaded({[EmptyNamespace EXCEPT !.classes = gcs, !.interfaces = gis] :
                            gcs \in Classes(DepNs), gis \in GIfaces})}

\* Functions, and types of every kind with methods
SymbolWorlds ==
    LET Counts == 0..MaxMethods
        PClasses == {<<>>} \cup
            {<<Class(Primary, "A", NoType, <<>>, MethodIds("class", "A", n))>> : n \in Counts}
        PIfaces == {<<>>} \cup
            {<<Interface(Primary, "A", MethodIds("interface", "A", n))>> : n \in Counts}
        PRecords == OrderedElementSeqs(
            [l \in LocalNames, n \in Counts |-> Compound(Primary, "record", l, MethodIds("record", l, n))], Counts)
        PUnions == ElementSeqs(
            [l \in LocalNames, n \in Counts |-> Compound(Primary, "union", l, MethodIds("union", l, n))], Counts)
        PFunctions == ElementSeqs(
            [l \in LocalNames, o \in {0} |-> Function(l)], {0})
    IN {World({}, [EmptyNamespace EXCEPT !.classes = cs, !.interfaces = is,
                      !.records = rs, !.unions = us, !.functions = fs],
              EmptyNamespace, <<>>) :
          cs \in PClasses, is \in PIfaces, rs \in PRecords, us \in PUnions,
          fs \in PFunctions}

\* Type nodes with and without a ctype, and the elements that define them
CtypeWorlds ==
    LET Aliases(ns) == {<<>>, <<Alias(ns, "A")>>}
        Classes(ns) == ElementSeqs(
            [l \in LocalNames, o \in {0} |-> Class(ns, l, NoType, <<>>, <<>>)], {0})
        Namespaces(ns) == {[EmptyNamespace EXCEPT !.aliases = as, !.classes = cs] :
                              as \in Aliases(ns), cs \in Classes(ns)}
        Nodes == UNION {[D -> {Null, <<"seen">>}] : D \in SUBSET AllTypeRefs}
    IN {World(dg[1], p, dg[2], ts) :
          p \in Namespaces(Primary), dg \in Loaded(Namespaces(DepNs)), ts \in Nodes}

Worlds == AncestorWorlds \cup ImplementsWorlds \cup SymbolWorlds \cup CtypeWorlds

\* No exception
NoError == [type |-> "", include |-> "", search_paths |-> <<>>]

\* No command runs.
SearchIdle ==
    /\ command = <<>>
    /\ searchPaths = <<>>
    /\ dirFiles = <<>>
    /\ loadedFrom = <<>>

\* No element is parsed, compared, linked or checked.
ToolsIdle ==
    /\ node = <<>>
    /\ element = <<>>
    /\ namespace = <<>>
    /\ comparison = <<>>
    /\ link = <<>>
    /\ checker = <<>>
    /\ language = <<>>
    /\ reference = <<>>
    /\ memo = <<>>
    /\ parsers = <<>>
    /\ index = <<>>
    /\ passLog = <<>>

\* The loader at rest
LoaderIdle ==
    /\ girIncludes = <<>>
    /\ onPath = {}
    /\ errorFlag = TRUE
    /\ callStack = <<>>
    /\ nsStack = <<>>
    /\ parsed = <<>>
    /\ requests = <<>>

\* parse() has built the repository and is about to run the passes.
InitResolver ==
    /\ LoaderIdle
    /\ \E w \in Worlds :
          /\ dependencies = w.dependencies
          /\ namespaces = w.namespaces
          /\ types = w.types
          /\ ast0 = w
    /\ symbols = <<>>
    /\ pc = "resolve_empty_ctypes"
    /\ result = ""
    /\ round = 1
    /\ firstRun = <<>>
    /\ SearchIdle
    /\ error = NoError
    /\ ToolsIdle

NextResolver ==
    \/ ResolveEmptyCtypes
    \/ ResolveClassAncestors
    \/ ResolveClassDescendants
    \/ ResolveInterfaceImplementations
    \/ ResolveSymbols
    \/ RunPassesAgain

SpecResolver == InitResolver /\ [][NextResolver]_vars

(***************************************************************************)
(* GirParser._parse_dependency and GirParser._parse_tree                   *)
(***************************************************************************)
\* The GIR documents: the primary one, which parse() is given, and two more.
\* Document X declares namespace X, and <include name="X"> asks for it.
GirNames == {"P", "G", "H"}

MaxIncludes == 2
\* The depth of nested _parse_tree calls at which the interpreter gives up
MaxDepth == 4

Frame(doc) == [doc |-> doc, next |-> 1, phase |-> "includes"]

Top == callStack[Len(callStack)]

\* _parse_tree is in its loop over the includes and has one left to ask for.
AtInclude ==
    /\ pc = "parse_tree"
    /\ callStack # <<>>
    /\ Top.phase = "includes"
    /\ Top.next <= Len(girIncludes[Top.doc])

CurrentInclude == girIncludes[Top.doc][Top.next]

\* log.log_fatal_warnings: the module sets it to False and nothing assigns it.
log_fatal_warnings == FALSE

\* The cache is not consulted.
never_cached(include) == FALSE

\* self._dependencies.get(include.name, None) is not None
is_cached(include) == include \in dependencies

\* Every file is there.
always_found(include) == TRUE

\* Some search path holds the file of the include.
is_found(include) == include \in onPath

NextInclude == [callStack EXCEPT ![Len(callStack)].next = @ + 1]

\* _parse_dependency: the include is in the cache already.
ParseDependencyCached ==
    /\ AtInclude
    /\ is_cached(CurrentInclude)
    /\ requests' = [requests EXCEPT ![CurrentInclude] = @ + 1]
    /\ callStack' = NextInclude
    /\ UNCHANGED <<girIncludes, onPath, errorFlag, nsStack, dependencies, parsed,
                   namespaces, types, symbols, pc, result, round, firstRun, ast0, searchVars, error, toolVars, genVars>>

\* _parse_dependency: the file is found and _parse_tree is called on it.
ParseDependencyLoad ==
    /\ AtInclude
    /\ ~is_cached(CurrentInclude)
    /\ is_found(CurrentInclude)
    /\ Len(callStack) < MaxDepth
    /\ requests' = [requests EXCEPT ![CurrentInclude] = @ + 1]
    /\ parsed' = [parsed EXCEPT ![CurrentInclude] = @ + 1]
    /\ callStack' = Append(callStack, Frame(CurrentInclude))
    /\ UNCHANGED <<girIncludes, onPath, errorFlag, nsStack, dependencies,
                   namespaces, types, symbols, pc, result, round, firstRun, ast0, searchVars, error, toolVars, genVars>>

\* The same call when the nesting has reached the interpreter's limit
ParseDependencyOverflow ==
    /\ AtInclude
    /\ ~is_cached(CurrentInclude)
    /\ is_found(CurrentInclude)
    /\ Len(callStack) = MaxDepth
    /\ requests' = [requests EXCEPT ![CurrentInclude] = @ + 1]
    /\ result' = "RecursionError"
    /\ pc' = "raised"
    /\ UNCHANGED <<girIncludes, onPath, errorFlag, callStack, nsStack, dependencies,
                   parsed, namespaces, types, symbols, round, firstRun, ast0, searchVars, error, toolVars, genVars>>

\* _parse_dependency: no search path holds the file, self._error is set:
\* log.error, and _parse_tree goes on with the next include.
ParseDependencyNotFound ==
    /\ AtInclude
    /\ ~is_cached(CurrentInclude)
    /\ ~is_found(CurrentInclude)
    /\ errorFlag
    /\ requests' = [requests EXCEPT ![CurrentInclude] = @ + 1]
    /\ IF log_fatal_warnings
       THEN /\ result' = "SystemExit"
            /\ pc' = "raised"
            /\ UNCHANGED callStack
       ELSE /\ callStack' = NextInclude
            /\ UNCHANGED <<pc, result>>
    /\ UNCHANGED <<girIncludes, onPath, errorFlag, nsStack, dependencies, parsed,
                   namespaces, types, symbols, round, firstRun, ast0,
                   searchVars, error, toolVars, genVars>>

\* _parse_dependency: no search path holds the file, self._error is not set:
\* RuntimeError.
ParseDependencyRaise ==
    /\ AtInclude
    /\ ~is_cached(CurrentInclude)
    /\ ~is_found(CurrentInclude)
    /\ ~errorFlag
    /\ requests' = [requests EXCEPT ![CurrentInclude] = @ + 1]
    /\ result' = "RuntimeError"
    /\ error' = [type |-> "RuntimeError", include |-> CurrentInclude,
                 search_paths |-> searchPaths]
    /\ pc' = "raised"
    /\ UNCHANGED <<girIncludes, onPath, errorFlag, callStack, nsStack, dependencies,
                   parsed, namespaces, types, symbols, round, firstRun, ast0,
                   searchVars, toolVars, genVars>>

\* self._current_namespace.append(ns)
_push_namespace(stack, ns) == Append(stack, ns)

\* The namespace is left on the stack.
_pop_nothing(stack) == stack

\* self._current_namespace.pop()
_pop_namespace(stack) == SubSeq(stack, 1, Len(stack) - 1)

\* The last entry of self._current_namespace, or None
_get_namespace(stack) ==
    IF Len(stack) = 0 THEN Null ELSE Some(stack[Len(stack)])

\* _parse_tree after the includes: the namespace is pushed and its children
\* are parsed.
ParseNamespace ==
    /\ pc = "parse_tree"
    /\ callStack # <<>>
    /\ Top.phase = "includes"
    /\ Top.next > Len(girIncludes[Top.doc])
    /\ Top.doc \notin Range(nsStack)
    /\ nsStack' = _push_namespace(nsStack, Top.doc)
    /\ callStack' = [callStack EXCEPT ![Len(callStack)].phase = "namespace"]
    /\ UNCHANGED <<girIncludes, onPath, errorFlag, dependencies, parsed, requests,
                   namespaces, types, symbols, pc, result, round, firstRun, ast0, searchVars, error, toolVars, genVars>>

\* _parse_tree pops the namespace and returns: to _parse_dependency, which
\* stores the repository under the name of its namespace, or to parse().
ParseTreeReturn ==
    /\ pc = "parse_tree"
    /\ callStack # <<>>
    /\ Top.phase = "namespace"
    /\ nsStack' = _pop_namespace(nsStack)
    /\ IF Len(callStack) > 1
       THEN /\ dependencies' = dependencies \cup {Top.doc}
            /\ callStack' = [SubSeq(callStack, 1, Len(callStack) - 1)
                                EXCEPT ![Len(callStack) - 1].next = @ + 1]
            /\ UNCHANGED pc
       ELSE /\ callStack' = <<>>
            /\ pc' = "resolve_empty_ctypes"
            /\ UNCHANGED dependencies
    /\ UNCHANGED <<girIncludes, onPath, errorFlag, parsed, requests,
                   namespaces, types, symbols, result, round, firstRun, ast0, searchVars, error, toolVars, genVars>>

\* No repository is built yet.
ResolverIdle ==
    /\ namespaces = <<>>
    /\ types = <<>>
    /\ symbols = <<>>
    /\ round = 1
    /\ firstRun = <<>>
    /\ ast0 = <<>>

\* parse(girfile) has read the primary document and calls _parse_tree.
InitLoader ==
    /\ girIncludes \in [GirNames -> DistinctSeqs(GirNames, MaxIncludes)]
    /\ onPath \in SUBSET GirNames
    /\ \A d \in GirNames \ (onPath \cup {Primary}) : girIncludes[d] = <<>>
    /\ errorFlag \in BOOLEAN
    /\ callStack = <<Frame(Primary)>>
    /\ nsStack = <<>>
    /\ dependencies = {}
    /\ parsed = [d \in GirNames |-> 0]
    /\ requests = [d \in GirNames |-> 0]
    /\ ResolverIdle
    /\ pc = "parse_tree"
    /\ result = ""
    /\ command = <<>>
    /\ searchPaths \in (IF onPath = {} THEN {<<>>, <<"cwd">>} ELSE {<<"inc", "cwd">>})
    /\ dirFiles = <<>>
    /\ loadedFrom = <<>>
    /\ error = NoError
    /\ ToolsIdle

NextLoader ==
    \/ ParseDependencyCached
    \/ ParseDependencyLoad
    \/ ParseDependencyOverflow
    \/ ParseDependencyNotFound
    \/ ParseDependencyRaise
    \/ ParseNamespace
    \/ ParseTreeReturn

SpecLoader == InitLoader /\ [][NextLoader]_vars

(***************************************************************************)
(* Properties of the loader                                                *)
(***************************************************************************)
\* C4: a parse that loads its includes parses every dependency it caches
\* exactly once and no other, however many documents include it, and a
\* _parse_dependency request for an include that is in the cache parses
\* nothing and leaves the cache as it is.
C4_DependencyParsedOnce ==
    [][/\ (AtInclude /\ CurrentInclude \in dependencies) =>
              (dependencies' = dependencies /\ parsed' = parsed)
       /\ (pc' = "resolve_empty_ctypes") =>
              \A d \in GirNames :
                  parsed'[d] = IF d \in dependencies' THEN 1 ELSE 0]_vars

\* A diamond: the document was asked for more than once and parsed once.
C4_Witness ==
    /\ pc = "resolve_empty_ctypes"
    /\ callStack = <<>>
    /\ \E d \in GirNames : requests[d] >= 2 /\ parsed[d] = 1 /\ d \in dependencies
    /\ \A d \in GirNames \ {Primary} : d \in dependencies

\* C5: parse() comes to an end on every set of GIR documents, cyclic
\* includes among them: the nesting of _parse_tree calls stays finite.
C5_CyclicIncludesTerminate == result # "RecursionError"

\* C11: a request for an include that is in no search path and not in the
\* cache, in strict mode (GirParser(error=False)), ends parse() with a
\* RuntimeError that carries the include and the search paths; in lenient
\* mode (error=True) it raises nothing, leaves the cache alone and the
\* including document goes on with its next include; and the repository of
\* a parse that returns has no entry for an include no search path holds.
C11_MissingInclude ==
    [][/\ (AtInclude /\ CurrentInclude \notin dependencies
                     /\ CurrentInclude \notin onPath /\ ~errorFlag) =>
              /\ pc' = "raised"
              /\ result' = "RuntimeError"
              /\ error' = [type |-> "RuntimeError", include |-> CurrentInclude,
                           search_paths |-> searchPaths]
       /\ (AtInclude /\ CurrentInclude \notin dependencies
                     /\ CurrentInclude \notin onPath /\ errorFlag) =>
              /\ pc' = pc
              /\ result' = result
              /\ error' = NoError
              /\ dependencies' = dependencies
              /\ callStack' = NextInclude
       /\ (pc' = "resolve_empty_ctypes") =>
              \A d \in GirNames \ onPath : d \notin dependencies']_vars

\* A lenient parse has returned: an include was asked for and not found, and
\* another one is loaded.
C11_Witness ==
    /\ pc = "resolve_empty_ctypes"
    /\ errorFlag
    /\ \E d \in GirNames : requests[d] >= 1 /\ d \notin onPath /\ d \notin dependencies
    /\ dependencies # {}

(***************************************************************************)
(* Properties of the resolver passes                                       *)
(***************************************************************************)
PassOrder == <<"resolve_empty_ctypes", "resolve_class_ancestors",
               "resolve_class_descendants", "resolve_interface_implementations",
               "resolve_symbols", "done">>

Position(p) == CHOOSE i \in DOMAIN PassOrder : PassOrder[i] = p

\* Pass p has run to its end on the repository.
PassDone(p) ==
    \/ round = 2
    \/ pc \in Range(PassOrder) /\ Position(pc) > Position(p)
    \/ pc = "raised"

\* parse() has returned after the whole pass sequence.
Resolved == pc = "done"

PrimaryClasses == namespaces[Primary].classes

\* The namespaces of the graph: the primary one and the included ones
GraphNamespaces == {Primary} \cup dependencies

\* The class a Type names in the graph, if any
ClassNamed(t) ==
    IF t.ns \in GraphNamespaces /\ t.name \in Keys(namespaces[t.ns].classes)
    THEN t ELSE NoType

GraphClasses == {TypeRef(n, l) : n \in GraphNamespaces, l \in LocalNames} \cap
                {t \in AllTypeRefs : ClassNamed(t) # NoType}

GraphInterfaces ==
    {t \in AllTypeRefs : t.ns \in GraphNamespaces
                         /\ t.name \in Keys(namespaces[t.ns].interfaces)}

InterfaceAt(ref) == Get(namespaces[ref.ns].interfaces, ref.name)

\* The parent a class was built with
BuiltParent(ref) == Get(ast0.namespaces[ref.ns].classes, ref.name).parent

\* C1: after resolve_class_ancestors, the ancestors of every class of the
\* primary namespace that has a parent start with that parent, every entry
\* that names a class of the graph (the primary namespace or an included
\* one) is followed by the parent of that class, and the chain ends at a
\* class without a parent (or at a reference that names no class).
C1_AncestorsAreFullChain ==
    PassDone("resolve_class_ancestors") =>
        \A i \in DOMAIN PrimaryClasses :
            LET c == PrimaryClasses[i]
                n == Len(c.ancestors)
            IN BuiltParent(TypeRef(Primary, c.name)) # NoType =>
                /\ n >= 1
                /\ c.ancestors[1] = BuiltParent(TypeRef(Primary, c.name))
                /\ \A k \in 1..n :
                      IF ClassNamed(c.ancestors[k]) = NoType THEN k = n
                      ELSE IF BuiltParent(c.ancestors[k]) = NoType THEN k = n
                      ELSE k < n /\ c.ancestors[k + 1] = BuiltParent(c.ancestors[k])

C6_AncestorsTerminate ==
    /\ result # "hang"
    /\ PassDone("resolve_class_ancestors") =>
          \A i \in DOMAIN PrimaryClasses :
              TypeRef(Primary, PrimaryClasses[i].name) \notin Range(PrimaryClasses[i].ancestors)

\* A class of the primary namespace whose parent names no class of the graph
UnresolvableParent(c) ==
    /\ BuiltParent(TypeRef(Primary, c.name)) # NoType
    /\ ClassNamed(BuiltParent(TypeRef(Primary, c.name))) = NoType

DefiningElement(t) ==
    IF t.ns \in GraphNamespaces THEN find_real_type(t.ns, t.name) ELSE NoElement

\* C9: after the empty-ctype pass, every Type built without a ctype whose
\* name find_real_type resolves in the primary or in an included namespace
\* has the ctype of the defining element, and one whose name resolves to
\* nothing still has none.
C9_EmptyCtypesBackfilled ==
    PassDone("resolve_empty_ctypes") =>
        \A t \in DOMAIN types :
            ast0.types[t] = Null =>
                IF DefiningElement(t) # NoElement
                THEN types[t] = DefiningElement(t).ctype
                ELSE types[t] = Null

MethodOwners ==
    {<<"class", namespaces[Primary].classes>>,
     <<"interface", namespaces[Primary].interfaces>>,
     <<"record", namespaces[Primary].records>>,
     <<"union", namespaces[Primary].unions>>}

\* C10: after resolve_symbols, find_symbol of the identifier of a method
\* yields the class, interface, record or union that owns the method, and
\* find_symbol of the identifier of a function yields the function.
C10_SymbolsYieldOwner ==
    Resolved =>
        /\ \A f \in Range(namespaces[Primary].functions) :
              find_symbol(f.identifier) = Owner("function", f.name)
        /\ \A ko \in MethodOwners :
              \A e \in Range(ko[2]) :
                  \A m \in Range(e.methods) : find_symbol(m) = Owner(ko[1], e.name)

(***************************************************************************)
(* The rest of the program while one part of it is looked at               *)
(***************************************************************************)
\* parse() is not running and there is no repository.
ParserIdle ==
    /\ LoaderIdle
    /\ ResolverIdle
    /\ dependencies = {}
    /\ pc = "idle"
    /\ result = ""
    /\ error = NoError

\* Every variable of the parts not named in `active` has its value at rest.
AtRest(active) ==
    /\ IF "search" \in active THEN TRUE ELSE SearchIdle
    /\ IF "node" \in active THEN TRUE ELSE node = <<>> /\ element = <<>>
    /\ IF "namespace" \in active THEN TRUE ELSE namespace = <<>>
    /\ IF "comparison" \in active THEN TRUE ELSE comparison = <<>>
    /\ IF "link" \in active THEN TRUE ELSE link = <<>>
    /\ IF "checker" \in active THEN TRUE ELSE checker = <<>>
    /\ IF "language" \in active THEN TRUE ELSE language = <<>>
    /\ IF "reference" \in active THEN TRUE ELSE reference = <<>>
    /\ IF "memo" \in active THEN TRUE ELSE memo = <<>>
    /\ IF "parsers" \in active THEN TRUE ELSE parsers = <<>>
    /\ IF "index" \in active THEN TRUE ELSE index = <<>>
    /\ passLog = <<>>

parserVars == <<loaderVars, dependencies, namespaces, types, symbols, pc, result,
                round, firstRun, ast0, error>>

(***************************************************************************)
(* Type.__eq__                                                             *)
(***************************************************************************)
\* A Type as __eq__ sees it: Type.namespace is the part of the name before
\* the dot ("" for None), `name` the rest, and the ctype.  kind = "str" is a
\* string operand, whose text is ns and name.
TypeNode(kind, t, ctype) == [kind |-> kind, ns |-> t.ns, name |-> t.name, ctype |-> ctype]

\* Type.name: the whole name, the namespace part included
full_name(t) == <<t.ns, t.name>>

TypeNodes ==
    {TypeNode("Type", TypeRef(n, l), c) :
        n \in {""} \cup NsNames, l \in LocalNames, c \in {Null, <<"c1">>, <<"c2">>}}

StrOperands == {TypeNode("str", t, Null) : t \in AllTypeRefs}

\* Type.__eq__(self, other)
type_eq(self, other) ==
    IF other.kind = "Type"
    THEN IF self.ns # ""
         THEN self.ns = other.ns /\ full_name(self) = full_name(self)
         ELSE IF self.ctype # Null
         THEN full_name(self) = full_name(other) /\ self.ctype = other.ctype
         ELSE full_name(self) = full_name(other)
    ELSE IF other.kind = "str"
    THEN full_name(self) = full_name(other)
    ELSE FALSE

InitTypeEq ==
    /\ ParserIdle
    /\ AtRest({"comparison"})
    /\ comparison \in [self : TypeNodes, other : TypeNodes \cup StrOperands,
                       called : {FALSE}, returned : {FALSE}]

\* self == other is evaluated.
TypeEq ==
    /\ ~comparison.called
    /\ comparison' = [comparison EXCEPT !.called = TRUE,
                         !.returned = type_eq(comparison.self, comparison.other)]
    /\ UNCHANGED <<parserVars, searchVars, node, element, namespace, link, checker, genVars>>

NextTypeEq == TypeEq

SpecTypeEq == InitTypeEq /\ [][NextTypeEq]_vars

\* C12: two Type nodes that compare equal have the same name, namespace
\* part included; two Types of one namespace with different names are not
\* equal.
C12_EqualTypesHaveSameName ==
    (comparison.called /\ comparison.other.kind = "Type" /\ comparison.returned) =>
        full_name(comparison.self) = full_name(comparison.other)

(***************************************************************************)
(* GirParser._maybe_parse_docs, GIRElement.set_deprecated and              *)
(* GIRElement.deprecated_since                                             *)
(***************************************************************************)
\* not s, for an optional string
falsy(s) == s = Null \/ s = Some("")

\* An element with documentation: the deprecated and deprecated-version
\* attributes and the text of the <doc-deprecated> child.
DocNodes ==
    [tag : {"element"}, parsed : {FALSE},
     deprecated : {Null, Some("0"), Some("1")},
     deprecated_version : {Null, Some("1.2")},
     doc_deprecated : {Null, Some(""), Some("gone")}]

\* Info.__init__
Info == [deprecated_msg |-> Null, deprecated_version |-> Null]

\* GIRElement.set_deprecated
set_deprecated(info, doc, since_version) ==
    [info EXCEPT !.deprecated_msg = doc, !.deprecated_version = since_version]

\* The part of _maybe_parse_docs that reads the deprecation
maybe_parse_docs(n, info) ==
    IF n.deprecated # Null
    THEN set_deprecated(info, n.doc_deprecated, n.deprecated_version)
    ELSE info

DefaultDeprecation == Some("Please do not use it in newly written code")

\* GIRElement.deprecated_since: None, or the pair (version, message)
deprecated_since(info) ==
    IF falsy(info.deprecated_msg) THEN Null
    ELSE <<info.deprecated_version,
           IF info.deprecated_msg = Null THEN DefaultDeprecation
           ELSE info.deprecated_msg>>

\* _maybe_parse_docs(node, element) on a new element
MaybeParseDocs ==
    /\ node.tag = "element"
    /\ ~node.parsed
    /\ node' = [node EXCEPT !.parsed = TRUE]
    /\ element' = [info |-> maybe_parse_docs(node, Info)]
    /\ UNCHANGED <<parserVars, searchVars, namespace, comparison, link, checker, genVars>>

\* C13: the deprecated_since of a parsed element is not None exactly when
\* the element declared deprecated="1", and a deprecated element without a
\* deprecation message has the default message.
C13_DeprecatedSince ==
    (node.tag = "element" /\ node.parsed) =>
        /\ deprecated_since(element.info) # Null <=> node.deprecated = Some("1")
        /\ (node.deprecated = Some("1") /\ falsy(node.doc_deprecated)) =>
               /\ deprecated_since(element.info) # Null
               /\ deprecated_since(element.info)[2] = DefaultDeprecation

(***************************************************************************)
(* GirParser._parse_array and GirParser._parse_ctype                       *)
(***************************************************************************)
MaxTypeChildren == 2

\* A <type> element: its name and c:type attributes and the names of its
\* <type> children
TypeElement(present, name, ctype, children) ==
    [present |-> present, name |-> name, ctype |-> ctype, children |-> children]

NoTypeElement == TypeElement(FALSE, Null, Null, <<>>)

\* An <array> element: its attributes and its <type> child
NoArrayElement ==
    [present |-> FALSE, name |-> Null, ctype |-> Null, zero_terminated |-> Null,
     fixed_size |-> Null, length |-> Null, type |-> NoTypeElement]

ArrayElements ==
    [present : {TRUE}, name : {Null, Some("arr")}, ctype : {Null, Some("gint*")},
     zero_terminated : {Null, Some("0"), Some("1")},
     fixed_size : {Null, Some(4)}, length : {Null, Some(0)},
     type : {NoTypeElement} \cup
            {TypeElement(TRUE, n, c, <<>>) :
                n \in {Null, Some("none"), Some("gint"), Some("G.A")},
                c \in {Null, Some("void"), Some("gpointer"), Some("GA*")}}]

TypeElements ==
    {TypeElement(TRUE, n, c, ch) :
        n \in {Null, Some("none"), Some("gint"), Some("G.A"), Some("GLib.List"),
               Some("GLib.HashTable"), Some("GList.HashTable")},
        c \in {Null, Some("void"), Some("gpointer"), Some("GA*")},
        ch \in UNION {[1..k -> {Null, Some("utf8")}] : k \in 0..MaxTypeChildren}}

\* An element with a type: it has an <array> child, a <type> child, a
\* <varargs> child or none of them.
TypedNodes ==
    {[tag |-> "typed", parsed |-> FALSE, array |-> a, type |-> NoTypeElement,
      varargs |-> FALSE] : a \in ArrayElements}
    \cup {[tag |-> "typed", parsed |-> FALSE, array |-> NoArrayElement, type |-> t,
           varargs |-> FALSE] : t \in TypeElements}
    \cup {[tag |-> "typed", parsed |-> FALSE, array |-> NoArrayElement,
           type |-> NoTypeElement, varargs |-> v] : v \in BOOLEAN}

\* What a method returns: a Type, VoidType, VarArgs, ListType, MapType or
\* ArrayType, or the TypeError that leaves it
TypeValue(kind, name, ctype, key_type, value_type) ==
    [kind |-> kind, name |-> name, ctype |-> ctype, key_type |-> key_type,
     value_type |-> value_type, zero_terminated |-> FALSE, fixed_size |-> -1,
     length |-> -1]

VoidType == TypeValue("VoidType", Some("none"), Some("void"), Null, Null)

\* ttype.replace('*', '')
strip_stars(ttype) == IF ttype = Some("GA*") THEN Some("GA") ELSE ttype

FUNDAMENTAL_INTEGRAL_TYPES == {Some("gint")}

\* _lookup_type: the Type registered for the name; the qualification of the
\* name and the table of seen types are left out here.
lookup_type(name, ctype) ==
    IF name = Null THEN TypeValue("TypeError", Null, Null, Null, Null)
    ELSE TypeValue("Type", name, ctype, Null, Null)

\* .attrib.get('name', 'gpointer')
name_or_gpointer(name) == IF name = Null THEN Some("gpointer") ELSE name

\* The target of _parse_array: the first `if` is followed by an `if`, not an
\* `elif`, so the chain after it decides.
array_target(t) ==
    IF ~t.present THEN VoidType
    ELSE IF t.name = Some("none") /\ t.ctype = Some("void") THEN VoidType
    ELSE IF t.ctype = Some("gpointer") /\ t.name \in FUNDAMENTAL_INTEGRAL_TYPES
    THEN lookup_type(t.name, <<t.name[1], "*">>)
    ELSE IF t.ctype = Some("gpointer") /\ t.name # Some("gpointer")
    THEN lookup_type(t.name, Null)
    ELSE IF ~falsy(t.name) THEN lookup_type(t.name, t.ctype)
    ELSE VoidType

\* An explicit zero-terminated attribute is ignored.
zero_terminated_unless_sized(a) ==
    a.name = Null /\ a.fixed_size = Null /\ a.length = Null

\* zero_terminated of _parse_array
zero_terminated_of(a) ==
    IF a.zero_terminated # Null THEN a.zero_terminated = Some("1")
    ELSE a.name = Null /\ a.fixed_size = Null /\ a.length = Null

\* GirParser._parse_array
parse_array(a) ==
    LET target == array_target(a.type) IN
    IF target.kind = "TypeError" THEN target
    ELSE [TypeValue("ArrayType", a.name, a.ctype, Null, target.name) EXCEPT
             !.zero_terminated = zero_terminated_of(a),
             !.fixed_size = IF a.fixed_size # Null THEN a.fixed_size[1] ELSE -1,
             !.length = IF a.length # Null THEN a.length[1] ELSE -1]

\* The name of the map type the type decoder looks for
MapTypeNames == {Some("GList.HashTable")}

\* The <type> branch of _parse_ctype; None is Null
decode_type(t) ==
    IF t.name = Null /\ t.ctype = Null THEN VoidType
    ELSE IF t.name = Null THEN TypeValue("Type", strip_stars(t.ctype), t.ctype, Null, Null)
    ELSE IF t.name = Some("none") /\ t.ctype = Some("void") THEN VoidType
    ELSE IF t.name \in {Some("GLib.List"), Some("GLib.SList")}
    THEN IF t.children # <<>>
         THEN TypeValue("ListType", t.name, t.ctype, Null, name_or_gpointer(t.children[1]))
         ELSE lookup_type(t.name, t.ctype)
    ELSE IF t.name \in MapTypeNames
    THEN IF Len(t.children) = 2
         THEN TypeValue("MapType", t.name, t.ctype, name_or_gpointer(t.children[1]),
                        name_or_gpointer(t.children[2]))
         ELSE lookup_type(t.name, t.ctype)
    ELSE IF t.ctype = Some("gpointer") /\ t.name \in FUNDAMENTAL_INTEGRAL_TYPES
    THEN lookup_type(t.name, <<t.name[1], "*">>)
    ELSE IF t.ctype = Some("gpointer") /\ t.name # Some("gpointer")
    THEN lookup_type(t.name, Null)
    ELSE lookup_type(t.name, t.ctype)

\* GirParser._parse_ctype
parse_ctype(n) ==
    IF n.array.present THEN parse_array(n.array)
    ELSE IF n.type.present THEN decode_type(n.type)
    ELSE IF n.varargs THEN TypeValue("VarArgs", Some("none"), Some(""), Null, Null)
    ELSE VoidType

\* _parse_ctype(node)
ParseCtype ==
    /\ node.tag = "typed"
    /\ ~node.parsed
    /\ node' = [node EXCEPT !.parsed = TRUE]
    /\ element' = parse_ctype(node)
    /\ UNCHANGED <<parserVars, searchVars, namespace, comparison, link, checker, genVars>>

InitElement ==
    /\ ParserIdle
    /\ AtRest({"node"})
    /\ node \in DocNodes \cup TypedNodes
    /\ element = <<>>

NextElement ==
    \/ MaybeParseDocs
    \/ ParseCtype

SpecElement == InitElement /\ [][NextElement]_vars

\* An <array> was parsed into an ArrayType.
ArrayParsed ==
    /\ node.tag = "typed"
    /\ node.parsed
    /\ node.array.present
    /\ element.kind = "ArrayType"

Unsized(a) == a.length = Null /\ a.fixed_size = Null /\ a.name = Null

\* C16 as stated: the ArrayType of an <array> without length, fixed-size and
\* name has zero_terminated == True; with one of them and no zero-terminated
\* attribute it is False.
C16_ZeroTerminatedUnlessSized ==
    ArrayParsed =>
        /\ Unsized(node.array) => element.zero_terminated
        /\ (~Unsized(node.array) /\ node.array.zero_terminated = Null) =>
               ~element.zero_terminated

\* C16 as amended: the ArrayType of an <array> with a zero-terminated
\* attribute has zero_terminated == True exactly when the attribute is "1";
\* without the attribute, zero_terminated is True exactly when the <array>
\* has no length, no fixed-size and no name.
C16_ZeroTerminatedAttributeFirst ==
    ArrayParsed =>
        element.zero_terminated =
            IF node.array.zero_terminated # Null
            THEN node.array.zero_terminated = Some("1")
            ELSE Unsized(node.array)

\* An <array zero-terminated="0"> without length, fixed-size and name
C16_Witness ==
    /\ ArrayParsed
    /\ Unsized(node.array)
    /\ node.array.zero_terminated = Some("0")
    /\ ~element.zero_terminated

\* C17: a <type name="GLib.HashTable"> with two <type> children is decoded
\* into a MapType with the first child as key type and the second as value
\* type.
C17_HashTableIsMap ==
    (/\ node.tag = "typed"
     /\ node.parsed
     /\ node.type.present
     /\ node.type.name = Some("GLib.HashTable")
     /\ Len(node.type.children) = 2) =>
        /\ element.kind = "MapType"
        /\ element.key_type = name_or_gpointer(node.type.children[1])
        /\ element.value_type = name_or_gpointer(node.type.children[2])

(***************************************************************************)
(* Namespace: the per-kind collections, and _parse_tree filling them       *)
(***************************************************************************)
\* Calls made on one Namespace: add_* calls and children of <namespace>
MaxCalls == 2

NamespaceKinds ==
    {"aliases", "bitfields", "boxeds", "callbacks", "classes", "constants",
     "enumerations", "error_domains", "functions", "function_macros",
     "interfaces", "records", "unions"}

\* Namespace.__init__: every collection is empty.  A dict is kept as the
\* sequence of its values in insertion order; `objects` counts the elements
\* constructed so far and gives each its identity, `raised` is set when a
\* parse method raised.
NewNamespace ==
    [collections |-> [k \in NamespaceKinds |-> <<>>], objects |-> 0, raised |-> FALSE]

\* d[e.name] = e
dict_set(d, e) ==
    IF \E i \in DOMAIN d : d[i].name = e.name
    THEN [i \in DOMAIN d |-> IF d[i].name = e.name THEN e ELSE d[i]]
    ELSE Append(d, e)

\* Namespace.add_alias ... add_callback: _callbacks is a list, the others
\* are dicts.
add(ns, kind, e) ==
    [ns EXCEPT !.collections[kind] =
        IF kind = "callbacks" THEN Append(@, e) ELSE dict_set(@, e)]

\* Namespace.get_classes ... get_callbacks
get(ns, kind) == ns.collections[kind]

NoObject == [name |-> "", id |-> 0]

\* Namespace.find_class, find_record, find_interface, find_function
FinderKinds == {"classes", "records", "interfaces", "functions"}

find(ns, kind, name) ==
    LET d == ns.collections[kind]
    IN IF \E i \in DOMAIN d : d[i].name = name
       THEN d[CHOOSE i \in DOMAIN d : d[i].name = name]
       ELSE NoObject

\* The dispatch table of _parse_tree: tag -> collection its parse method
\* adds to (an <enumeration> with glib:error-domain goes to error_domains).
parse_sections ==
    [tag \in {"alias", "bitfield", "glib:boxed", "callback", "class", "constant",
              "enumeration", "function-inline", "function-macro", "function",
              "interface", "record", "union"} |->
        CASE tag = "alias" -> "aliases"
          [] tag = "bitfield" -> "bitfields"
          [] tag = "glib:boxed" -> "boxeds"
          [] tag = "callback" -> "callbacks"
          [] tag = "class" -> "classes"
          [] tag = "constant" -> "constants"
          [] tag = "enumeration" -> "enumerations"
          [] tag = "function-inline" -> "functions"
          [] tag = "function-macro" -> "function_macros"
          [] tag = "function" -> "functions"
          [] tag = "interface" -> "interfaces"
          [] tag = "record" -> "records"
          [] tag = "union" -> "unions"]

\* Tags the table does not have
OtherTags == {"docsection"}

\* A direct child of <namespace>: `members` says whether it has <member>
\* children, `error_domain` whether it has a glib:error-domain attribute,
\* `typed` whether it has a <type> child.  A flag the parse method of the
\* tag does not read is left at its usual value.
Children ==
    {[tag |-> t, name |-> n, members |-> m, error_domain |-> d, typed |-> y] :
        t \in DOMAIN parse_sections \cup OtherTags, n \in LocalNames,
        m \in BOOLEAN, d \in BOOLEAN, y \in BOOLEAN}

SectionNodes ==
    {c \in Children :
        /\ c.tag \notin {"enumeration", "bitfield"} => c.members
        /\ c.tag # "enumeration" => ~c.error_domain
        /\ c.tag \notin {"alias", "constant"} => c.typed}

\* _parse_enumeration that never makes an ErrorDomain
parse_enumeration_plain(ns, child, e) ==
    IF ~child.members THEN ns ELSE add(ns, "enumerations", e)

\* _parse_enumeration
parse_enumeration(ns, child, e) ==
    IF ~child.members
    THEN ns
    ELSE IF child.error_domain
         THEN add(ns, "error_domains", e)
         ELSE add(ns, "enumerations", e)

\* One round of the loop of _parse_tree over the children of <namespace>
parse_section(ns, child) ==
    LET e == [name |-> child.name, id |-> ns.objects + 1]
        made == [ns EXCEPT !.objects = @ + 1]
    IN IF child.tag \notin DOMAIN parse_sections
       THEN ns
       ELSE IF child.tag \in {"alias", "constant"} /\ ~child.typed
       THEN [ns EXCEPT !.raised = TRUE]
       ELSE IF child.tag = "enumeration"
       THEN IF child.members THEN parse_enumeration(made, child, e) ELSE ns
       ELSE IF child.tag = "bitfield" /\ ~child.members
       THEN ns
       ELSE add(made, parse_sections[child.tag], e)

\* The add_* call a step made; kind "" if it made none
added(old, new) ==
    LET S == {c \in [kind : NamespaceKinds, element : {[name |-> n, id |-> old.objects + 1] : n \in LocalNames}] :
                 \E i \in DOMAIN new.collections[c.kind] :
                     new.collections[c.kind][i] = c.element}
    IN IF S = {} THEN <<[kind |-> "", element |-> NoObject]>> ELSE <<CHOOSE c \in S : TRUE>>

CallsLeft == ~namespace.raised /\ Len(element) < MaxCalls

\* _parse_tree reads the next child of <namespace>.  `node` is the children
\* read so far and `element` the add_* call of each step made so far.
ParseSection ==
    /\ CallsLeft
    /\ \E child \in SectionNodes :
        /\ node' = Append(node, child)
        /\ namespace' = parse_section(namespace, child)
        /\ element' = element \o added(namespace, namespace')
    /\ UNCHANGED <<parserVars, searchVars, comparison, link, checker, genVars>>

\* A direct call of one add_* method with a new element
AddElement ==
    /\ CallsLeft
    /\ \E kind \in NamespaceKinds, n \in LocalNames :
        /\ namespace' = add([namespace EXCEPT !.objects = @ + 1], kind,
                            [name |-> n, id |-> namespace.objects + 1])
        /\ element' = element \o added(namespace, namespace')
    /\ UNCHANGED <<node, parserVars, searchVars, comparison, link, checker, genVars>>

InitNamespace ==
    /\ ParserIdle
    /\ AtRest({"node", "namespace"})
    /\ node = <<>>
    /\ element = <<>>
    /\ namespace = NewNamespace

NextNamespace ==
    \/ ParseSection
    \/ AddElement

SpecNamespace == InitNamespace /\ [][NextNamespace]_vars

\* The places of the elements called `n` in a collection
Named(d, n) == {i \in DOMAIN d : d[i].name = n}

\* The last add_* call made for a kind and a name (0: none)
LastCall(kind, n) ==
    LET calls == {i \in DOMAIN element :
                     element[i].kind = kind /\ element[i].element.name = n}
    IN IF calls = {} THEN 0 ELSE CHOOSE i \in calls : \A j \in calls : j <= i

\* C14: whatever add_* calls were made, every collection of the Namespace
\* holds at most one element per local name, and its getter and its finder
\* give the element added last under that name.
C14_OneElementPerName ==
    \A kind \in NamespaceKinds, n \in LocalNames :
        /\ Cardinality(Named(get(namespace, kind), n)) <= 1
        /\ LastCall(kind, n) # 0 =>
            /\ \A i \in Named(get(namespace, kind), n) :
                   get(namespace, kind)[i] = element[LastCall(kind, n)].element
            /\ kind \in FinderKinds =>
                   find(namespace, kind, n) = element[LastCall(kind, n)].element

\* A collection has an element called as the child
Holds(ns, kind, child) == Named(ns.collections[kind], child.name) # {}

CollectionOf(child) ==
    IF child.tag = "enumeration" /\ child.error_domain
    THEN "error_domains"
    ELSE parse_sections[child.tag]

\* A child whose parse method returns before it makes an element
Memberless(child) == child.tag \in {"enumeration", "bitfield"} /\ ~child.members

\* A child whose parse method raises
Untyped(child) == child.tag \in {"alias", "constant"} /\ ~child.typed

MaxIncludePaths == 2

Commands == {"generate", "check", "gen-deps", "gen-indices"}

\* The directories of --add-include-path options
IncludeDirs == {<<"include", i>> : i \in 1..MaxIncludePaths}

\* The directories the commands add by themselves: the working directory,
\* $GI_GIR_PATH, $XDG_DATA_HOME/gir-1.0, the gir-1.0 of the default
\* $XDG_DATA_DIRS (/usr/share and /usr/local/share), the gir-1.0 of an
\* $XDG_DATA_DIRS that was set, here to /opt/share.
cwd == <<"cwd", 0>>
gi_gir_path == <<"gi_gir_path", 0>>
xdg_data_home == <<"xdg_data_home", 0>>
usr_share == <<"usr_share", 0>>
usr_local_share == <<"usr_local_share", 0>>
opt_share == <<"opt_share", 0>>

DefaultDirs == {cwd, gi_gir_path, xdg_data_home, usr_share, usr_local_share, opt_share}

\* os.environ.get("XDG_DATA_DIRS", "/usr/share:/usr/local/share")
xdg_data_dirs(env) ==
    IF env.XDG_DATA_DIRS THEN <<opt_share>> ELSE <<usr_share, usr_local_share>>

\* utils.default_search_paths, not on win32
default_search_paths(env) ==
    LET paths == <<cwd>> \o (IF env.GI_GIR_PATH THEN <<gi_gir_path>> ELSE <<>>)
                         \o <<xdg_data_home>> \o xdg_data_dirs(env)
    IN IF \E i \in DOMAIN paths : paths[i] = usr_share
       THEN paths
       ELSE Append(paths, usr_share)

\* `paths` as run() of each command builds it
run_paths(cmd) ==
    CASE cmd.name \in {"generate", "check"} ->
            cmd.include_paths \o default_search_paths(cmd.env)
      [] cmd.name = "gen-indices" ->
            cmd.include_paths \o <<cwd, xdg_data_home>> \o xdg_data_dirs(cmd.env)
      [] cmd.name = "gen-deps" ->
            <<cwd, xdg_data_home>> \o xdg_data_dirs(cmd.env)

\* The loop of _parse_dependency over the search paths: the first directory
\* that has the GIR file, as a list of one, or the empty list.
first_found(paths, files) ==
    LET hits == {i \in DOMAIN paths : paths[i] \in files}
    IN IF hits = {}
       THEN <<>>
       ELSE <<paths[CHOOSE i \in hits : \A j \in hits : i <= j]>>

\* Command lines: the --add-include-path options name different directories.
CommandLines ==
    {[name |-> n, include_paths |-> ips, env |-> e, pc |-> "run"] :
        n \in Commands,
        ips \in {q \in UNION {[1..k -> IncludeDirs] : k \in 0..MaxIncludePaths} :
                    \A i, j \in DOMAIN q : q[i] = q[j] => i = j},
        e \in [GI_GIR_PATH : BOOLEAN, XDG_DATA_DIRS : BOOLEAN]}

\* run(options) up to gir.GirParser(search_paths=paths)
Run ==
    /\ command.pc = "run"
    /\ searchPaths' = run_paths(command)
    /\ command' = [command EXCEPT !.pc = "parse"]
    /\ UNCHANGED <<dirFiles, loadedFrom, parserVars, toolVars, genVars>>

\* _parse_dependency of the one include of the document: Repository.girfile
\* is in the directory the file was found in.
LoadDependency ==
    /\ command.pc = "parse"
    /\ loadedFrom' = first_found(searchPaths, dirFiles)
    /\ command' = [command EXCEPT !.pc = "parsed"]
    /\ UNCHANGED <<searchPaths, dirFiles, parserVars, toolVars, genVars>>

\* dirFiles: the directories that hold the GIR file of the dependency
InitSearch ==
    /\ ParserIdle
    /\ AtRest({"search"})
    /\ command \in CommandLines
    /\ searchPaths = <<>>
    /\ dirFiles \in SUBSET (IncludeDirs \cup DefaultDirs)
    /\ loadedFrom = <<>>

NextSearch ==
    \/ Run
    \/ LoadDependency

SpecSearch == InitSearch /\ [][NextSearch]_vars

\* The places of a directory in the search paths
PlacesOf(dir) == {i \in DOMAIN searchPaths : searchPaths[i] = dir}

\* C18: in generate, check, gen-deps and gen-indices the directories of
\* --add-include-path come before every default directory in the search
\* paths the parser gets, and a dependency that several directories hold is
\* loaded from the first of them in the order of the list.
C18_IncludePathsFirst ==
    /\ command.pc \in {"parse", "parsed"} =>
        \A k \in DOMAIN command.include_paths :
            /\ PlacesOf(command.include_paths[k]) # {}
            /\ \A i \in PlacesOf(command.include_paths[k]), j \in DOMAIN searchPaths :
                   searchPaths[j] \in DefaultDirs => i < j
    /\ command.pc = "parsed" =>
        \A i \in DOMAIN searchPaths :
            (/\ searchPaths[i] \in dirFiles
             /\ \A j \in 1..(i - 1) : searchPaths[j] \notin dirFiles) =>
                loadedFrom = <<searchPaths[i]>>

(***************************************************************************)
(* LinkGenerator.__init__                                                  *)
(***************************************************************************)
\* What a parse method of LinkGenerator leaves: it raised LinkParseError, or
\* it returned with self._fragment set (Null for None).
Raise(message) == [raised |-> TRUE, fragment |-> Null, message |-> message]
Return(fragment) == [raised |-> FALSE, fragment |-> fragment, message |-> ""]

\* The namespace of the endpoint: the current one (or none given), one the
\* repository includes, or neither.  find_included_namespace gives None for
\* the last.
LinkNamespaces == {"current", "included", "unknown"}

\* What Namespace.find_real_type can give; besides these, a link has type
\* "none" for None (as it is for every name of an unknown namespace),
\* "Function" for what Repository.find_symbol can give besides, "absent" for
\* an endpoint that names no type.
RealTypes ==
    {"Alias", "BitField", "Enumeration", "ErrorDomain", "Class", "Interface",
     "Record", "Union"}

TypeFragments == {"alias", "callback", "class", "const", "iface", "struct", "type"}
EnumFragments == {"enum", "error", "flags"}
MethodFragments == {"ctor", "method", "vfunc"}

\* The keys of fragment_parsers
Fragments ==
    TypeFragments \cup EnumFragments \cup MethodFragments
        \cup {"func", "id", "property", "signal"}

\* type_fragment in _parse_type and _parse_enum_type
type_fragment(t) ==
    CASE t = "Alias" -> "alias"
      [] t = "Class" -> "class"
      [] t = "BitField" -> "flags"
      [] t = "ErrorDomain" -> "error"
      [] t = "Enumeration" -> "enum"
      [] t = "Interface" -> "iface"
      [] t \in {"Record", "Union"} -> "struct"

\* LinkGenerator._parse_id
parse_id(l) ==
    IF l.type = "none"
    THEN Raise("Unable to find symbol")
    ELSE IF l.type \in {"Class", "Interface", "Record"}
    THEN Return(Some("method"))
    ELSE IF l.type = "Function"
    THEN Return(Some("func"))
    ELSE Raise("Unsupported symbol")

\* LinkGenerator._parse_type; l.member # "none": something follows the name
parse_type(l) ==
    IF l.member # "none"
    THEN Raise("Unknown component")
    ELSE IF l.ns = "unknown"
    THEN Raise("Unknown namespace")
    ELSE IF l.type = "none"
    THEN Raise("Unable to find type")
    ELSE IF l.fragment # "type" /\ l.fragment # type_fragment(l.type)
    THEN Raise("Invalid fragment")
    ELSE Return(Some(type_fragment(l.type)))

\* LinkGenerator._parse_enum_type
parse_enum_type(l) ==
    IF l.ns = "unknown"
    THEN Raise("Unknown namespace")
    ELSE IF l.type = "none"
    THEN Raise("Unable to find type")
    ELSE IF l.type \notin {"Enumeration", "BitField", "ErrorDomain"}
    THEN Raise("Invalid type")
    ELSE IF l.fragment # type_fragment(l.type)
    THEN Raise("Invalid fragment")
    ELSE IF l.member = "unknown"
    THEN Raise("Invalid member")
    ELSE Return(Some(type_fragment(l.type)))

\* LinkGenerator._parse_property and _parse_signal
parse_property(l) ==
    IF l.member = "none"
    THEN Raise("Invalid property link")
    ELSE IF l.ns = "unknown"
    THEN Return(Null)
    ELSE IF l.type = "none"
    THEN Raise("Unable to find type")
    ELSE IF l.type \in {"Class", "Interface"} /\ l.member = "known"
    THEN Return(Some(l.fragment))
    ELSE Raise("Invalid property")

\* LinkGenerator._parse_method, for a type that is no class structure
parse_method(l) ==
    IF l.member = "none"
    THEN Raise("Invalid method link")
    ELSE IF l.ns = "unknown"
    THEN Return(Null)
    ELSE IF l.type = "none"
    THEN Raise("Unable to find type")
    ELSE IF l.member = "known"
    THEN Return(Some(l.fragment))
    ELSE Raise("Unable to find method")

\* LinkGenerator._parse_func; l.type = "absent" for [func@f] and [func@Ns.f].
\* In [func@X.f] an X that is no namespace is taken for a type of the
\* current namespace.
parse_func(l) ==
    IF l.member = "none"
    THEN Raise("Invalid function link")
    ELSE IF l.type = "absent"
    THEN IF l.ns = "unknown"
         THEN Raise("Unable to find type")
         ELSE IF l.member = "known"
         THEN Return(Some("func"))
         ELSE Raise("Unable to find function")
    ELSE IF l.ns = "unknown"
    THEN Raise("Namespace not found")
    ELSE IF l.type = "none"
    THEN Raise("Unable to find type")
    ELSE IF l.member = "known"
    THEN Return(Some("func"))
    ELSE Raise("Unable to find function")

\* fragment_parsers.get(self._fragment) called on the endpoint
fragment_parsers(l) ==
    CASE l.fragment \in TypeFragments -> parse_type(l)
      [] l.fragment \in EnumFragments -> parse_enum_type(l)
      [] l.fragment \in MethodFragments -> parse_method(l)
      [] l.fragment \in {"property", "signal"} -> parse_property(l)
      [] l.fragment = "func" -> parse_func(l)
      [] l.fragment = "id" -> parse_id(l)

\* The links given to LinkGenerator: `member` says whether the endpoint names
\* a member (method, property, signal, function, enumeration member, or any
\* further component) and whether the type has it.
Links ==
    {l \in [fragment : Fragments \cup {"foo"}, ns : LinkNamespaces,
            type : RealTypes \cup {"none", "absent", "Function"},
            member : {"none", "known", "unknown"}, do_raise : BOOLEAN] :
        /\ l.type = "Function" => l.fragment = "id"
        /\ l.type = "absent" => l.fragment = "func"
        /\ l.fragment = "id" => l.ns = "current" /\ l.member = "none"
        /\ l.ns = "unknown" => l.type \in {"none", "absent"}}

\* LinkGenerator.__init__
LinkGenerator ==
    /\ ~link.called
    /\ LET l == link.kwargs
           out == IF l.fragment \in Fragments
                  THEN fragment_parsers(l)
                  ELSE Raise("Unknown fragment")
       IN link' = [link EXCEPT
                      !.called = TRUE,
                      !.raised = out.raised /\ l.do_raise,
                      !.warned = out.raised /\ ~l.do_raise,
                      !.fragment = IF out.raised
                                   THEN IF l.do_raise THEN @ ELSE Null
                                   ELSE out.fragment]
    /\ UNCHANGED <<parserVars, searchVars, node, element, namespace, comparison, checker, genVars>>

InitLink ==
    /\ ParserIdle
    /\ AtRest({"link"})
    /\ \E l \in Links :
        link = [kwargs |-> l, called |-> FALSE, raised |-> FALSE,
                warned |-> FALSE, fragment |-> Some(l.fragment)]

NextLink == LinkGenerator

SpecLink == InitLink /\ [][NextLink]_vars

\* The link cannot be resolved: unknown fragment, a namespace that is neither
\* the current one nor an included one, unknown type or symbol, a fragment
\* that is not the one of the kind of the type, unknown enumeration member,
\* a component after a type name.
Unresolvable(l) ==
    \/ l.fragment \notin Fragments
    \/ l.ns = "unknown"
    \/ l.type = "none"
    \/ /\ l.fragment \in (TypeFragments \cup EnumFragments) \ {"type"}
       /\ l.type \in RealTypes
       /\ l.fragment # type_fragment(l.type)
    \/ l.fragment \in EnumFragments /\ l.member = "unknown"
    \/ l.fragment \in TypeFragments /\ l.member # "none"

\* C19: with do_raise=True the constructor of LinkGenerator raises
\* LinkParseError for every link that cannot be resolved, whatever its
\* fragment.
C19_UnresolvedLinkRaises ==
    (link.called /\ link.kwargs.do_raise /\ Unresolvable(link.kwargs)) => link.raised

(***************************************************************************)
(* gdcheck.check                                                           *)
(***************************************************************************)
\* Top-level symbols of the namespace
MaxSymbols == 1

\* The keys of all_indices, in the order check() goes through them
Sections ==
    <<"aliases", "bitfields", "callbacks", "classes", "constants", "domains",
      "enums", "functions", "function_macros", "interfaces", "structs", "unions">>

CallableSections == {"callbacks", "functions", "function_macros"}
EnumSections == {"bitfields", "domains", "enums"}
\* Sections whose checker reads properties.values() and signals.values()
PropertySections == {"classes", "interfaces"}
RecordSections == {"structs", "unions"}

\* A callable: doc is None or not, the doc of each of its parameters
\* likewise, and its return value: None, of VoidType, or with or without doc
Callables ==
    [doc : BOOLEAN, args : {<<>>, <<TRUE>>, <<FALSE>>},
     retval : {"none", "void", "documented", "undocumented"}]

PlainCallable == [doc |-> TRUE, args |-> <<>>, retval |-> "none"]

\* The callables inside a symbol: one with every doc, and one for each doc
\* that can be missing
InnerCallables ==
    {[doc |-> TRUE, args |-> <<TRUE>>, retval |-> "documented"],
     [doc |-> FALSE, args |-> <<TRUE>>, retval |-> "void"],
     [doc |-> TRUE, args |-> <<FALSE>>, retval |-> "none"],
     [doc |-> TRUE, args |-> <<>>, retval |-> "undocumented"]}

\* A top-level symbol of a section: what it is as a callable, its members or
\* properties (their docs), its constructors, methods, functions and
\* signals, and for a record whether get_effective_records keeps it.
SymbolsOf(section) ==
    {[callable |-> c, plain |-> p, callables |-> cs, effective |-> e] :
        c \in (IF section \in CallableSections
               THEN Callables
               ELSE {[PlainCallable EXCEPT !.doc = d] : d \in BOOLEAN}),
        p \in (IF section \in EnumSections \cup PropertySections
               THEN {<<>>, <<TRUE>>, <<FALSE>>}
               ELSE {<<>>}),
        cs \in (IF section \in EnumSections \cup PropertySections \cup RecordSections
                THEN {<<>>} \cup {<<k>> : k \in InnerCallables}
                ELSE {<<>>}),
        e \in (IF section = "structs" THEN BOOLEAN ELSE {TRUE})}

\* _check_doc_element: what it appends to results
check_doc_element(doc) == IF doc THEN <<>> ELSE <<"Symbol">>

\* _check_arg_docs
check_arg_docs(arguments) ==
    [i \in 1..Cardinality({j \in DOMAIN arguments : ~arguments[j]}) |-> "Parameter"]

\* _check_retval_docs
check_retval_docs(retval) ==
    IF retval = "none"
    THEN <<>>
    ELSE IF retval = "void"
    THEN <<>>
    ELSE IF retval = "undocumented" THEN <<"Return value">> ELSE <<>>

\* The three checks of one callable
check_callable(c) ==
    check_doc_element(c.doc) \o check_arg_docs(c.args) \o check_retval_docs(c.retval)

RECURSIVE check_callables(_)
check_callables(cs) ==
    IF cs = <<>> THEN <<>> ELSE check_callable(Head(cs)) \o check_callables(Tail(cs))

RECURSIVE check_plain(_)
check_plain(ds) ==
    IF ds = <<>> THEN <<>> ELSE check_doc_element(Head(ds)) \o check_plain(Tail(ds))

\* The body of the loop of _check_aliases ... _check_unions for one symbol.
\* _check_classes and _check_interfaces call properties.values() after the
\* methods and functions, and Class.properties and Interface.properties are
\* lists: the call raises AttributeError.
check_symbol(section, symbol) ==
    IF section \in CallableSections
    THEN [results |-> check_callable(symbol.callable), raised |-> FALSE]
    ELSE IF section \in EnumSections
    THEN [results |-> check_doc_element(symbol.callable.doc)
                          \o check_plain(symbol.plain)
                          \o check_callables(symbol.callables),
          raised |-> FALSE]
    ELSE IF section \in PropertySections
    THEN [results |-> check_doc_element(symbol.callable.doc)
                          \o check_callables(symbol.callables),
          raised |-> TRUE]
    ELSE IF section \in RecordSections
    THEN [results |-> check_doc_element(symbol.callable.doc)
                          \o check_callables(symbol.callables),
          raised |-> FALSE]
    ELSE [results |-> check_doc_element(symbol.callable.doc), raised |-> FALSE]

\* symbols[section]: get_effective_records leaves records out, the other
\* getters give every symbol.
symbols_of(repository, section) ==
    SelectSeq(repository[section], LAMBDA x : x.effective)

\* _check_aliases ... _check_unions: the loop over the symbols of a section,
\* up to the first that raises
RECURSIVE check_section(_, _)
check_section(section, ss) ==
    IF ss = <<>>
    THEN [results |-> <<>>, raised |-> FALSE]
    ELSE LET first == check_symbol(section, Head(ss))
             rest == check_section(section, Tail(ss))
         IN IF first.raised
            THEN first
            ELSE [results |-> first.results \o rest.results, raised |-> rest.raised]

SectionNames == {Sections[i] : i \in DOMAIN Sections}

\* Repositories with at most n top-level symbols
RECURSIVE Repositories(_)
Repositories(n) ==
    IF n = 0
    THEN {[k \in SectionNames |-> <<>>]}
    ELSE Repositories(n - 1) \cup
         {[r EXCEPT ![kx[1]] = Append(@, kx[2])] :
             r \in Repositories(n - 1),
             kx \in UNION {{<<k, x>> : x \in SymbolsOf(k)} : k \in SectionNames}}

\* One round of `for section in all_indices`: the checker of the section
\* runs on its symbols and appends to results.
CheckSection ==
    /\ ~checker.raised
    /\ Len(checker.visited) < Len(Sections)
    /\ LET section == Sections[Len(checker.visited) + 1]
           out == check_section(section, symbols_of(checker.repository, section))
       IN checker' = [checker EXCEPT
                         !.visited = Append(@, section),
                         !.results = @ \o out.results,
                         !.raised = out.raised]
    /\ UNCHANGED <<parserVars, searchVars, node, element, namespace, comparison, link, genVars>>

\* The end of check(): log.warning for every result, which does not exit as
\* log_fatal_warnings is False, and `return len(results) == 0`.
CheckReturn ==
    /\ ~checker.raised
    /\ Len(checker.visited) = Len(Sections)
    /\ checker.returned = Null
    /\ checker' = [checker EXCEPT
                      !.warnings = IF log_fatal_warnings THEN <<>> ELSE checker.results,
                      !.returned = IF log_fatal_warnings /\ checker.results # <<>>
                                   THEN Some("SystemExit")
                                   ELSE IF Len(checker.results) = 0
                                   THEN Some("True")
                                   ELSE Some("False")]
    /\ UNCHANGED <<parserVars, searchVars, node, element, namespace, comparison, link, genVars>>

InitCheck ==
    /\ ParserIdle
    /\ AtRest({"checker"})
    /\ \E r \in Repositories(MaxSymbols) :
        checker = [repository |-> r, visited |-> <<>>, results |-> <<>>,
                   warnings |-> <<>>, raised |-> FALSE, returned |-> Null]

NextCheck ==
    \/ CheckSection
    \/ CheckReturn

SpecCheck == InitCheck /\ [][NextCheck]_vars

\* A callable lacks the doc of itself, of a parameter, or of a return value
\* that is not void.
Undocumented(c) ==
    \/ ~c.doc
    \/ \E i \in DOMAIN c.args : ~c.args[i]
    \/ c.retval = "undocumented"

\* A checked symbol of the repository lacks documentation.
LacksDocumentation(r) ==
    \E k \in SectionNames : \E i \in DOMAIN r[k] :
        /\ r[k][i].effective
        /\ \/ (IF k \in CallableSections
               THEN Undocumented(r[k][i].callable)
               ELSE ~r[k][i].callable.doc)
           \/ \E j \in DOMAIN r[k][i].plain : ~r[k][i].plain[j]
           \/ \E j \in DOMAIN r[k][i].callables : Undocumented(r[k][i].callables[j])

\* C20: check() never aborts, goes through every section even after a
\* finding, and returns True exactly when no checked symbol, parameter or
\* non-void return value lacks documentation.
C20_CheckReturnsNoFindings ==
    /\ ~checker.raised
    /\ checker.returned # Null =>
        /\ checker.visited = Sections
        /\ checker.returned = IF LacksDocumentation(checker.repository)
                              THEN Some("False")
                              ELSE Some("True")

(***************************************************************************)
(* utils.process_language                                                  *)
(***************************************************************************)
\* The words a marker can name, and str.lower on them
lower ==
    [w \in {"C", "c", "XML", "xml", "Plain", "plain", "CSS", "css",
            "JavaScript", "javascript", "Python", "python"} |->
        CASE w \in {"C", "c"} -> "c"
          [] w \in {"XML", "xml"} -> "xml"
          [] w \in {"Plain", "plain"} -> "plain"
          [] w \in {"CSS", "css"} -> "css"
          [] w \in {"JavaScript", "javascript"} -> "javascript"
          [] w \in {"Python", "python"} -> "python"]

\* LANGUAGE_MAP
LANGUAGE_MAP ==
    [k \in {"c", "css", "plain", "xml", "javascript"} |-> k]

\* The arguments of process_language: None (`none`), or a string: white
\* space or not before the marker, inside it on both sides of the
\* language="..." part and after it, the word between the quotes ("" for
\* none), and how the rest of the string is: "marker" for
\* <!-- language="word" -->, "unquoted" without the quotes, "open" without
\* the closing -->, "trailing" with text after the marker, "text" for a
\* string without marker.
Languages ==
    {l \in [none : BOOLEAN, lead : BOOLEAN, inner : BOOLEAN, trail : BOOLEAN,
            word : DOMAIN lower \cup {""},
            form : {"marker", "unquoted", "open", "trailing", "text"}] :
        /\ l.none => (~l.lead /\ ~l.inner /\ ~l.trail /\ l.word = "" /\ l.form = "text")
        /\ l.form = "text" => (~l.inner /\ l.word = "")}

\* LANGUAGE_RE.match(lang): the group `language`, Null for no match.  \s*
\* takes the white space wherever the string has it; \w+ needs a word.
LANGUAGE_RE_match(l) ==
    IF l.form = "marker" /\ l.word # "" THEN Some(l.word) ELSE Null

\* process_language(lang): [returned, raised]
process_language(l) ==
    IF l.none
    THEN [returned |-> Some("plain"), raised |-> ""]
    ELSE LET res == LANGUAGE_RE_match(l)
             lang == IF res # Null THEN res[1] ELSE "plain"
         IN IF lower[lang] \in DOMAIN LANGUAGE_MAP
            THEN [returned |-> Some(LANGUAGE_MAP[lower[lang]]), raised |-> ""]
            ELSE [returned |-> Null, raised |-> "KeyError"]

ProcessLanguage ==
    /\ ~language.called
    /\ language' = [language EXCEPT
                       !.called = TRUE,
                       !.returned = process_language(language.lang).returned,
                       !.raised = process_language(language.lang).raised]
    /\ UNCHANGED <<parserVars, searchVars, toolVars, reference, memo, parsers, index, passLog>>

InitLanguage ==
    /\ ParserIdle
    /\ AtRest({"language"})
    /\ \E l \in Languages :
        language = [lang |-> l, called |-> FALSE, returned |-> Null, raised |-> ""]

NextLanguage == ProcessLanguage

SpecLanguage == InitLanguage /\ [][NextLanguage]_vars

\* The string is a well-formed marker.
WellFormed(l) == ~l.none /\ l.form = "marker" /\ l.word # ""

\* C21: process_language returns a language name for every argument:
\* "plain" when the marker is missing or not well formed, else the word of
\* the marker in lower case, whatever white space is around it.
C21_LanguageForEveryInput ==
    language.called =>
        /\ language.raised = ""
        /\ language.returned = IF WellFormed(language.lang)
                               THEN Some(lower[language.lang.word])
                               ELSE Some("plain")

\* ---------------------------------------------------------------------
\* gen_reference: one rendering pass per section, run in a thread pool.

MaxNames == 1

SymbolNames == {<<"a", "b", "c">>[i] : i \in 1..MaxNames}

\* The keys of all_indices the model follows, in the order of the
\* dictionary.
all_indices == <<"bitfields", "enums", "functions", "function_macros">>

\* The same keys in ascending order of Python's string comparison
\* ("_" sorts before "s").
SectionOrder == <<"bitfields", "enums", "function_macros", "functions">>

SectionRank(s) == CHOOSE i \in 1..Len(SectionOrder) : SectionOrder[i] = s

File(prefix, owner, name) == [prefix |-> prefix, owner |-> owner, name |-> name]

\* The files a section's generator opens for writing.
_gen_bitfields(syms, funcs) ==
    {File("flags", "", n) : n \in syms}
        \cup {File("type_func", n, f) : n \in syms, f \in funcs}

_gen_enums(syms, funcs) ==
    {File("enum", "", n) : n \in syms}
        \cup {File("type_func", n, f) : n \in syms, f \in funcs}

_gen_functions(syms) == {File("func", "", n) : n \in syms}

_gen_function_macros(syms) == {File("func", "", n) : n \in syms}

get_effective_function_macros(content) == content.function_macros

generator(section, content) ==
    CASE section = "bitfields" ->
             _gen_bitfields(content.bitfields, content.type_funcs)
      [] section = "enums" -> _gen_enums(content.enums, content.type_funcs)
      [] section = "functions" -> _gen_functions(content.functions)
      [] section = "function_macros" ->
             _gen_function_macros(get_effective_function_macros(content))

RECURSIVE insert_sorted(_, _)
insert_sorted(seq, s) ==
    IF seq = <<>> THEN <<s>>
    ELSE IF SectionRank(s) < SectionRank(Head(seq))
         THEN <<s>> \o seq
         ELSE <<Head(seq)>> \o insert_sorted(Tail(seq), s)

unsorted(seq) == seq

RECURSIVE sorted(_)
sorted(seq) ==
    IF seq = <<>> THEN <<>>
    ELSE insert_sorted(sorted(Tail(seq)), Head(seq))

Contents ==
    [bitfields : SUBSET SymbolNames, enums : SUBSET SymbolNames,
     functions : SUBSET SymbolNames, function_macros : SUBSET SymbolNames,
     type_funcs : SUBSET {"f"}]

SectionSet == {all_indices[i] : i \in 1..Len(all_indices)}

\* executor.submit for every section of gen_indices.
SubmitSections ==
    /\ reference.stage = "start"
    /\ reference' = [reference EXCEPT
                        !.stage = "running",
                        !.futures = [s \in SectionSet |-> "pending"]]
    /\ UNCHANGED <<parserVars, searchVars, toolVars, language, memo, parsers, index, passLog>>

\* A worker thread runs one section's generator to its end.
RunSection(section) ==
    /\ reference.stage = "running"
    /\ reference.futures[section] = "pending"
    /\ reference' =
           IF section \in reference.raising
           THEN [reference EXCEPT !.futures[section] = "raised"]
           ELSE [reference EXCEPT
                    !.futures[section] = "returned",
                    !.written[section] = generator(section, reference.content)]
    /\ UNCHANGED <<parserVars, searchVars, toolVars, language, memo, parsers, index, passLog>>

\* One turn of the as_completed loop with the exception left uncaught.
collect_uncaught(ref, section) ==
    IF ref.futures[section] = "raised"
    THEN [ref EXCEPT !.futures[section] = "collected",
                     !.as_completed = Append(@, section),
                     !.exited = TRUE]
    ELSE [ref EXCEPT !.futures[section] = "collected",
                     !.as_completed = Append(@, section),
                     !.template_symbols = Append(@, section)]

\* One turn of the as_completed loop: future.result() in a try block.
collect(ref, section) ==
    IF ref.futures[section] = "raised"
    THEN [ref EXCEPT !.futures[section] = "collected",
                     !.as_completed = Append(@, section),
                     !.warnings = @ \cup {section},
                     !.exited = log_fatal_warnings]
    ELSE [ref EXCEPT !.futures[section] = "collected",
                     !.as_completed = Append(@, section),
                     !.template_symbols = Append(@, section)]

CollectSection(section) ==
    /\ reference.stage = "running"
    /\ ~reference.exited
    /\ reference.futures[section] \in {"returned", "raised"}
    /\ reference' = collect(reference, section)
    /\ UNCHANGED <<parserVars, searchVars, toolVars, language, memo, parsers, index, passLog>>

\* The aggregate is sorted by key and the namespace index is rendered
\* from it.
WriteNamespaceIndex ==
    /\ reference.stage = "running"
    /\ ~reference.exited
    /\ \A s \in SectionSet : reference.futures[s] = "collected"
    /\ reference' = [reference EXCEPT
                        !.stage = "done",
                        !.template_symbols = sorted(@),
                        !.ns_file = sorted(reference.template_symbols)]
    /\ UNCHANGED <<parserVars, searchVars, toolVars, language, memo, parsers, index, passLog>>

InitReference ==
    /\ ParserIdle
    /\ AtRest({"reference"})
    /\ \E c \in Contents, r \in {{}} \cup {{s} : s \in SectionSet} :
        reference = [content |-> c, raising |-> r, stage |-> "start",
                     futures |-> [s \in SectionSet |-> "none"],
                     written |-> [s \in SectionSet |-> {}],
                     as_completed |-> <<>>, template_symbols |-> <<>>,
                     warnings |-> {}, exited |-> FALSE, ns_file |-> <<>>]

NextReference ==
    \/ SubmitSections
    \/ \E s \in SectionSet : RunSection(s)
    \/ \E s \in SectionSet : CollectSection(s)
    \/ WriteNamespaceIndex

SpecReference == InitReference /\ [][NextReference]_vars

\* C22: the sets of files written by different sections are pairwise
\* disjoint, for every namespace content.
C22_DisjointOutputFiles ==
    \A s, t \in SectionSet :
        s # t => reference.written[s] \cap reference.written[t] = {}

Ascending(seq) ==
    \A i, j \in 1..Len(seq) :
        i < j => SectionRank(seq[i]) < SectionRank(seq[j])

\* C23: the aggregated section mapping is iterated in ascending order of
\* the section name, whatever the order in which the sections completed.
C23_AggregateAscending ==
    reference.stage = "done" =>
        Ascending(reference.ns_file) /\ Ascending(reference.template_symbols)

\* Two sections completed out of order and the index was rendered.
C23_Witness ==
    /\ reference.stage = "done"
    /\ Len(reference.ns_file) >= 2
    /\ ~Ascending(reference.as_completed)

\* C29: with fatal warnings disabled, a section that raises is reported
\* as a warning and left out of the aggregate, every other submitted
\* section runs and is in the aggregate, and the namespace index is
\* written.
C29_FailureIsolated ==
    /\ reference.stage = "running" => ~reference.exited
    /\ (reference.stage = "running"
            /\ \A s \in SectionSet : reference.futures[s] = "collected")
        => /\ reference.warnings = reference.raising
           /\ Range(reference.template_symbols) = SectionSet \ reference.raising
           /\ ENABLED WriteNamespaceIndex
    /\ reference.stage = "done"
        => /\ reference.warnings = reference.raising
           /\ Range(reference.ns_file) = SectionSet \ reference.raising
           /\ \A s \in SectionSet \ reference.raising :
                  reference.written[s] = generator(s, reference.content)

\* A section raised and the index was written from the other sections.
C29_Witness ==
    /\ reference.stage = "done"
    /\ reference.raising # {}
    /\ reference.warnings = reference.raising
    /\ Len(reference.ns_file) = Len(all_indices) - 1

\* ---------------------------------------------------------------------
\* GirParser.parse: the passes that follow _parse_tree.

ParsePassesSymbolsFirst ==
    <<"resolve_symbols", "resolve_empty_ctypes", "resolve_class_ctype",
      "resolve_class_implements", "resolve_class_descendants",
      "resolve_class_ancestors", "resolve_interface_requires",
      "resolve_interface_implementations", "resolve_moved_to">>

\* The calls on self._repository, in the order of the statements.
ParsePasses ==
    <<"resolve_empty_ctypes", "resolve_class_ctype",
      "resolve_class_implements", "resolve_class_ancestors",
      "resolve_class_descendants", "resolve_interface_requires",
      "resolve_interface_implementations", "resolve_moved_to",
      "resolve_symbols">>

\* parse() calls the next pass on the primary repository.
RunPass ==
    /\ callStack = <<>>
    /\ pc \in {"resolve_empty_ctypes", "passes"}
    /\ Len(passLog) < Len(ParsePasses)
    /\ passLog' = Append(passLog, ParsePasses[Len(passLog) + 1])
    /\ pc' = IF Len(passLog) + 1 = Len(ParsePasses) THEN "done" ELSE "passes"
    /\ UNCHANGED <<loaderVars, dependencies, namespaces, types, symbols, result,
                   round, firstRun, ast0, searchVars, error, toolVars,
                   language, reference, memo, parsers, index>>

NextParse == NextLoader \/ RunPass

SpecParse == InitLoader /\ [][NextParse]_vars

PassAt(p) == CHOOSE i \in DOMAIN passLog : passLog[i] = p

C26_NamespaceStackDiscipline ==
    /\ (callStack # <<>> /\ Top.phase = "namespace") =>
          /\ _get_namespace(nsStack) = Some(Top.doc)
          /\ Len(nsStack) = 1
    /\ (callStack # <<>> /\ Top.phase = "includes") => nsStack = <<>>
    /\ callStack = <<>> => nsStack = <<>>

\* The children of the primary namespace are being parsed after a
\* dependency was pushed, parsed and popped.
C26_Witness ==
    /\ Len(callStack) = 1
    /\ Top.phase = "namespace"
    /\ dependencies # {}
    /\ _get_namespace(nsStack) = Some(Primary)

\* ---------------------------------------------------------------------
\* GirParser._lookup_type and the table self._seen_types.

MaxLookups == 3

\* The entries of the module's tables the model follows.
FUNDAMENTAL_TYPES == {"gint", "int", "utf8"}

GLIB_ALIASES == [n \in {"gint"} |-> "int"]

FUNDAMENTAL_CTYPES == [n \in {"utf8", "GObject.Object"} |-> IF n = "utf8" THEN "char*" ELSE "GObject*"]

LookupNames == {"gint", "int", "utf8", "Widget", "Gtk.Widget", "GObject.Object"}

LookupCtypes == {Null, Some("int"), Some("GtkWidget*")}

Qualified == {"Gtk.Widget", "GObject.Object"}

\* The fully qualified name _lookup_type makes of a name.
fqtn_of(name, ns) ==
    IF name \in FUNDAMENTAL_TYPES
    THEN IF name \in DOMAIN GLIB_ALIASES THEN GLIB_ALIASES[name] ELSE name
    ELSE IF name \in Qualified THEN name
    ELSE IF ns # Null THEN "Gtk.Widget"
    ELSE name

Fqtns == {fqtn_of(n, ns) : n \in LookupNames, ns \in {Null, Some("Gtk")}}

\* The ctype after the two tables of default C types are consulted.
default_ctype(fqtn, ctype) ==
    IF ctype = Null /\ fqtn \in FUNDAMENTAL_TYPES THEN Some(fqtn)
    ELSE IF ctype = Null /\ fqtn \in DOMAIN FUNDAMENTAL_CTYPES
         THEN Some(FUNDAMENTAL_CTYPES[fqtn])
         ELSE ctype

\* Type.resolved
resolved(t) == t.ctype # Null

\* The loop over found_types finds nothing.
first_match_none(found, ctype) == 0

\* The loop over found_types: the position of the first resolved Type with
\* the ctype, 0 when there is none.
first_match(found, ctype) ==
    LET hits == {i \in DOMAIN found : resolved(found[i]) /\ found[i].ctype = ctype}
    IN IF hits = {} THEN 0 ELSE CHOOSE i \in hits : \A j \in hits : i <= j

\* _lookup_type(name, ctype) on the table seen, the next Type being Type
\* number id: the Type returned, the table afterwards, and whether the Type
\* was allocated by the call.
_lookup_type(seen, id, name, ctype, ns) ==
    LET fqtn == fqtn_of(name, ns)
        ct == default_ctype(fqtn, ctype)
        found == seen[fqtn]
        new == [id |-> id, name |-> fqtn, ctype |-> ct,
                is_fundamental |-> name \in FUNDAMENTAL_TYPES]
    IN IF found # <<>>
       THEN IF ct # Null
            THEN IF first_match(found, ct) # 0
                 THEN [t |-> found[first_match(found, ct)], seen |-> seen, fresh |-> FALSE]
                 ELSE [t |-> new, seen |-> [seen EXCEPT ![fqtn] = Append(@, new)],
                       fresh |-> TRUE]
            ELSE [t |-> found[1], seen |-> seen, fresh |-> FALSE]
       ELSE [t |-> new, seen |-> [seen EXCEPT ![fqtn] = <<new>>], fresh |-> TRUE]

LookupType(name, ctype) ==
    /\ memo.n < MaxLookups
    /\ LET r == _lookup_type(memo.seen, memo.n + 1, name, ctype, memo.ns)
       IN memo' = [memo EXCEPT
                      !.n = @ + 1,
                      !.seen = r.seen,
                      !.calls = @ \cup {[fqtn |-> fqtn_of(name, memo.ns),
                                         ctype |-> ctype, t |-> r.t.id]},
                      !.last = [fqtn |-> fqtn_of(name, memo.ns), ctype |-> ctype,
                                t |-> r.t, fresh |-> r.fresh,
                                seen_before |-> memo.seen[fqtn_of(name, memo.ns)] # <<>>]]
    /\ UNCHANGED <<parserVars, searchVars, toolVars, language, reference, parsers, index, passLog>>

NoLookup == [fqtn |-> "", ctype |-> Null,
             t |-> [id |-> 0, name |-> "", ctype |-> Null, is_fundamental |-> FALSE],
             fresh |-> FALSE, seen_before |-> FALSE]

InitLookup ==
    /\ ParserIdle
    /\ AtRest({"memo"})
    /\ \E ns \in {Null, Some("Gtk")} :
        memo = [ns |-> ns, n |-> 0, seen |-> [f \in Fqtns |-> <<>>],
                calls |-> {}, last |-> NoLookup]

NextLookup == \E name \in LookupNames, ctype \in LookupCtypes : LookupType(name, ctype)

SpecLookup == InitLookup /\ [][NextLookup]_vars

\* Calls with the same qualified name and the same ctype that is not None
\* have returned the same Type.
SameNodeForSameCtype ==
    \A c, d \in memo.calls :
        (c.fqtn = d.fqtn /\ c.ctype = d.ctype /\ c.ctype # Null) => c.t = d.t

\* Every Type of a bucket has the name of the bucket.
BucketNames ==
    \A f \in Fqtns : \A i \in DOMAIN memo.seen[f] : memo.seen[f][i].name = f

\* The name has a default C type in one of the two tables.
HasDefaultCtype(fqtn) ==
    fqtn \in FUNDAMENTAL_TYPES \/ fqtn \in DOMAIN FUNDAMENTAL_CTYPES

C27_TypeEqSymmetric ==
    (comparison.called /\ comparison.other.kind = "Type") =>
        comparison.returned = type_eq(comparison.other, comparison.self)

\* ---------------------------------------------------------------------
\* GirParser.__init__, append_search_path and prepend_search_paths.
\* A list is an object: `lists` maps the objects to their contents, and a
\* parser's _search_paths names one of them.

MaxPathCalls == 2

ParserNames == {"p1", "p2"}

\* The list object that is the default of the search_paths argument, and
\* the one the caller builds and passes.
DefaultList == 1
CallerList == 2

\* GirParser(search_paths): self._search_paths = search_paths
GirParser_init(search_paths) == search_paths

\* self._search_paths.append(path): the list object is changed in place.
append_search_path(ps, p, path) ==
    [ps EXCEPT !.lists[ps.ref[p]] = Append(@, path)]

\* self._search_paths = [path] + self._search_paths: a new list object.
prepend_search_paths(ps, p, path) ==
    LET new == Len(ps.lists) + 1
    IN [ps EXCEPT !.lists = Append(@, <<path>> \o ps.lists[ps.ref[p]]),
                  !.ref[p] = new]

search_paths_of(ps, p) == ps.lists[ps.ref[p]]

Snapshot(ps, p, op) ==
    [op |-> op, parser |-> p,
     before |-> [q \in ParserNames |-> search_paths_of(ps, q)],
     caller |-> ps.lists[CallerList]]

AppendSearchPath(p, path) ==
    /\ parsers.calls < MaxPathCalls
    /\ parsers' = [append_search_path(parsers, p, path) EXCEPT
                      !.calls = @ + 1,
                      !.last = Snapshot(parsers, p, "append_search_path")]
    /\ UNCHANGED <<parserVars, searchVars, toolVars, language, reference, memo, index, passLog>>

PrependSearchPaths(p, path) ==
    /\ parsers.calls < MaxPathCalls
    /\ parsers' = [prepend_search_paths(parsers, p, path) EXCEPT
                      !.calls = @ + 1,
                      !.last = Snapshot(parsers, p, "prepend_search_paths")]
    /\ UNCHANGED <<parserVars, searchVars, toolVars, language, reference, memo, index, passLog>>

InitParsers ==
    /\ ParserIdle
    /\ AtRest({"parsers"})
    /\ \E args \in [ParserNames -> {DefaultList, CallerList}],
          given \in {<<>>, <<"inc">>} :
        parsers = [lists |-> <<<<>>, given>>,
                   ref |-> [p \in ParserNames |-> GirParser_init(args[p])],
                   args |-> args,
                   calls |-> 0,
                   last |-> [op |-> "", parser |-> "",
                             before |-> [q \in ParserNames |-> <<>>],
                             caller |-> <<>>]]

NextParsers ==
    \E p \in ParserNames, path \in {"a", "b"} :
        AppendSearchPath(p, path) \/ PrependSearchPaths(p, path)

SpecParsers == InitParsers /\ [][NextParsers]_vars

\* C28: append_search_path and prepend_search_paths on one parser leave the
\* search paths of every other parser and the caller's list as they were.
C28_SearchPathsAreOwn ==
    parsers.last.op # "" =>
        /\ \A q \in ParserNames \ {parsers.last.parser} :
               search_paths_of(parsers, q) = parsers.last.before[q]
        /\ parsers.lists[CallerList] = parsers.last.caller

\* ---------------------------------------------------------------------
\* gdgenindices.gen_indices: the symbols list and the terms dictionary of
\* the search index.  Document ids count from 0.

MaxIndexSymbols == 1

IndexTerms == {"t", "u"}

\* What the index reads of a symbol: the terms of its name, whether it has
\* a doc (whose terms are DocTerms), and whether it has one member
\* function or constructor.
IndexSymbolShapes ==
    [terms : {<<"t", "t">>, <<"u", "t">>}, doc : BOOLEAN, member : BOOLEAN]

DocTerms == <<"t", "u">>

\* The sections of all_indices the model follows, in the dictionary's order.
IndexSections == <<"bitfields", "classes", "functions">>

\* add_index_terms without the test `docid not in docs`.
RECURSIVE add_index_terms_unchecked(_, _, _)
add_index_terms_unchecked(ix, terms, docid) ==
    IF terms = <<>> THEN ix
    ELSE add_index_terms_unchecked(
             [ix EXCEPT !.terms[Head(terms)] = Append(@, docid)],
             Tail(terms), docid)

\* add_index_terms(index, terms, docid)
RECURSIVE add_index_terms(_, _, _)
add_index_terms(ix, terms, docid) ==
    IF terms = <<>> THEN ix
    ELSE add_index_terms(
             IF docid \notin Range(ix.terms[Head(terms)])
             THEN [ix EXCEPT !.terms[Head(terms)] = Append(@, docid)]
             ELSE [ix EXCEPT !.skipped = @ + 1],
             Tail(terms), docid)

\* idx = len(index_symbols); index_symbols.append(...); add_index_terms for
\* the name and, when there is a doc, for the doc.
index_symbol(ix, type, sym) ==
    LET idx == Len(ix.symbols)
        appended == [ix EXCEPT !.symbols = Append(@, type)]
        named == add_index_terms(appended, sym.terms, idx)
    IN IF sym.doc THEN add_index_terms(named, DocTerms, idx) ELSE named

\* A member function or constructor of a type: it has the type's name
\* terms and doc in the model.
index_member(ix, type, sym) ==
    IF sym.member THEN index_symbol(ix, type, sym) ELSE ix

RECURSIVE index_gen_bitfields(_, _)
index_gen_bitfields(ix, syms) ==
    IF syms = <<>> THEN ix
    ELSE index_gen_bitfields(
             index_member(index_symbol(ix, "bitfield", Head(syms)),
                          "type_func", Head(syms)),
             Tail(syms))

\* _gen_classes: the class and its constructors are added, and
\* cls.properties.items() raises AttributeError, Class.properties being a
\* list.
index_gen_classes(ix, syms) ==
    IF syms = <<>> THEN ix
    ELSE [index_member(index_symbol(ix, "class", Head(syms)), "ctor", Head(syms))
             EXCEPT !.raised = "AttributeError"]

RECURSIVE index_gen_functions(_, _)
index_gen_functions(ix, syms) ==
    IF syms = <<>> THEN ix
    ELSE index_gen_functions(index_symbol(ix, "function", Head(syms)), Tail(syms))

index_generator(section, ix, syms) ==
    CASE section = "bitfields" -> index_gen_bitfields(ix, syms)
      [] section = "classes" -> index_gen_classes(ix, syms)
      [] section = "functions" -> index_gen_functions(ix, syms)

\* One turn of the loop over all_indices.
GenIndexSection ==
    /\ index.raised = ""
    /\ index.next <= Len(IndexSections)
    /\ index' = [index_generator(IndexSections[index.next], index,
                                 index.content[IndexSections[index.next]])
                    EXCEPT !.next = @ + 1]
    /\ UNCHANGED <<parserVars, searchVars, toolVars, language, reference, memo, parsers, passLog>>

\* json.dumps(index) is written to index.json.
WriteIndexFile ==
    /\ index.raised = ""
    /\ index.next > Len(IndexSections)
    /\ ~index.written
    /\ index' = [index EXCEPT !.written = TRUE]
    /\ UNCHANGED <<parserVars, searchVars, toolVars, language, reference, memo, parsers, passLog>>

IndexSymbolSeqs == UNION {[1..n -> IndexSymbolShapes] : n \in 0..MaxIndexSymbols}

InitIndex ==
    /\ ParserIdle
    /\ AtRest({"index"})
    /\ \E b \in IndexSymbolSeqs, c \in IndexSymbolSeqs,
          f \in {q \in IndexSymbolSeqs : \A i \in DOMAIN q : ~q[i].member} :
        index = [content |-> [bitfields |-> b, classes |-> c, functions |-> f],
                 symbols |-> <<>>, terms |-> [t \in IndexTerms |-> <<>>],
                 skipped |-> 0, next |-> 1, raised |-> "", written |-> FALSE]

NextIndex == GenIndexSection \/ WriteIndexFile

SpecIndex == InitIndex /\ [][NextIndex]_vars

\* C30: every document id stored under a term is a position of the symbols
\* list, and no term's list holds an id twice.
C30_IndexIdsValid ==
    \A t \in IndexTerms :
        /\ \A i \in DOMAIN index.terms[t] :
               0 <= index.terms[t][i] /\ index.terms[t][i] < Len(index.symbols)
        /\ \A i, j \in DOMAIN index.terms[t] :
               i # j => index.terms[t][i] # index.terms[t][j]

\* The index is written: a term names two symbols, and a term that came
\* twice for one symbol was stored once.
C30_Witness ==
    /\ index.written
    /\ Len(index.symbols) >= 2
    /\ \E t \in IndexTerms : Len(index.terms[t]) >= 2
    /\ index.skipped > 0

====
